---- MODULE Spec2Model ----
(***************************************************************************)
(* A model of recli's marker protocol parser (CommandDetector) and of the  *)
(* event channel it feeds.  Bytes are their integer values; an             *)
(* Option<T> is a sequence of length 0 (None) or 1 (Some(x)).              *)
(***************************************************************************)
EXTENDS Integers, Sequences, FiniteSets, TLC

\* ------------------------------------------------------------------ bytes
\* 0x1e, the record separator that opens a marker
RS == 30
\* b'\n'
LF == 10
\* b'\r'
CR == 13
\* Duration::from_millis(50), the echo-skip grace window
GraceMs == 50

\* "RECLI_START:"
RECLI_START == <<82, 69, 67, 76, 73, 95, 83, 84, 65, 82, 84, 58>>
\* "RECLI_END:"
RECLI_END == <<82, 69, 67, 76, 73, 95, 69, 78, 68, 58>>
\* "RECLI_PWD:"
RECLI_PWD == <<82, 69, 67, 76, 73, 95, 80, 87, 68, 58>>
\* "RECLI_PIPE:"
RECLI_PIPE == <<82, 69, 67, 76, 73, 95, 80, 73, 80, 69, 58>>

\* std::env::current_dir() of the recording process, "/"
ProcessCwd == <<47>>

None == <<>>
Some(x) == <<x>>

\* ------------------------------------------------------- string helpers
\* str::strip_prefix: Some(rest) when s starts with p
strip_prefix(s, p) ==
    IF Len(s) >= Len(p) /\ SubSeq(s, 1, Len(p)) = p
    THEN Some(SubSeq(s, Len(p) + 1, Len(s)))
    ELSE None

\* str::strip_suffix
strip_suffix(s, p) ==
    IF Len(s) >= Len(p) /\ SubSeq(s, Len(s) - Len(p) + 1, Len(s)) = p
    THEN Some(SubSeq(s, 1, Len(s) - Len(p)))
    ELSE None

\* char::is_whitespace on the ASCII range
IsWhitespace(c) == c \in {9, 10, 11, 12, 13, 32}

RECURSIVE trim_start(_)
trim_start(s) ==
    IF s # <<>> /\ IsWhitespace(Head(s)) THEN trim_start(Tail(s)) ELSE s

RECURSIVE trim_end(_)
trim_end(s) ==
    IF s # <<>> /\ IsWhitespace(s[Len(s)])
    THEN trim_end(SubSeq(s, 1, Len(s) - 1))
    ELSE s

\* str::trim
trim(s) == trim_end(trim_start(s))

IsDigit(c) == c \in 48..57

\* the digits of a positive i32, accumulated with checked_mul/checked_add:
\* None on a non-digit or on overflow past i32::MAX
RECURSIVE parse_pos(_, _)
parse_pos(s, acc) ==
    IF s = <<>> THEN Some(acc)
    ELSE IF ~IsDigit(Head(s)) THEN None
    ELSE LET d == Head(s) - 48
         IN  IF acc > (2147483647 - d) \div 10 THEN None
             ELSE parse_pos(Tail(s), acc * 10 + d)

\* the digits of a negative i32, accumulated with checked_mul/checked_sub:
\* None on a non-digit or on overflow past i32::MIN
RECURSIVE parse_neg(_, _)
parse_neg(s, acc) ==
    IF s = <<>> THEN Some(acc)
    ELSE IF ~IsDigit(Head(s)) THEN None
    ELSE LET d == Head(s) - 48
         IN  IF acc < -(IF d = 9 THEN 214748363 ELSE 214748364) THEN None
             ELSE parse_neg(Tail(s), acc * 10 - d)

\* str::parse::<i32>().ok(): optional sign, at least one digit, in range
parse_i32(s) ==
    IF s = <<>> THEN None
    ELSE IF Head(s) = 45 THEN (IF Len(s) = 1 THEN None ELSE parse_neg(Tail(s), 0))
    ELSE IF Head(s) = 43 THEN (IF Len(s) = 1 THEN None ELSE parse_pos(Tail(s), 0))
    ELSE parse_pos(s, 0)

\* str::split(','): the pieces between commas, at least one piece
RECURSIVE split_comma(_, _)
split_comma(s, cur) ==
    IF s = <<>> THEN <<cur>>
    ELSE IF Head(s) = 44 THEN <<cur>> \o split_comma(Tail(s), <<>>)
    ELSE split_comma(Tail(s), Append(cur, Head(s)))

\* the loop of handle_marker over the pieces: push every piece that parses
RECURSIVE parse_parts(_)
parse_parts(parts) ==
    IF parts = <<>> THEN <<>>
    ELSE parse_i32(trim(Head(parts))) \o parse_parts(Tail(parts))

\* ------------------------------------------------------------- LogEvent
CommandStart(cmd, cwd) == [type |-> "CommandStart", cmd |-> cmd, cwd |-> cwd]
Output(data) == [type |-> "Output", data |-> data]
CommandEnd(exit_code, pipestatus, cwd) ==
    [type |-> "CommandEnd", exit_code |-> exit_code,
     pipestatus |-> pipestatus, cwd |-> cwd]

\* -------------------------------------------------------- CommandDetector
\* CommandDetector::new.  skip_started_at holds the age of the Instant in
\* ms (the code only ever reads its elapsed()); partial_marker None is <<>>
\* (a Some is never empty: it starts with the 0x1e).
NewDetector ==
    [partial_marker |-> <<>>, in_command |-> FALSE, skip_until_eol |-> FALSE,
     skip_started_at |-> None, pending_exit_code |-> None,
     pending_pipestatus |-> None, pending_pwd |-> None, last_pwd |-> None]

\* A call in progress: m.d is the detector, m.out the display bytes so far,
\* m.sent the events handed to send_log_event so far, m.g the history kept
\* for the properties (never read by the definitions that model the code).

\* SessionManager::send_log_event as seen by the detector
send_log_event(m, ev) == [m EXCEPT !.sent = Append(@, ev)]

\* last_pwd, or the process's current directory
best_cwd(d) == IF d.last_pwd # None THEN d.last_pwd[1] ELSE ProcessCwd

send_end_event(m, exit_code, cwd) ==
    send_log_event(m, CommandEnd(exit_code, None, cwd))

send_end_event_with_pipe(m, exit_code, pipestatus, cwd) ==
    send_log_event(m, CommandEnd(exit_code, pipestatus, cwd))

\* a start_command that opens the new command without closing the open one
start_command_without_end(m, cmd) ==
    LET m2 == [m EXCEPT !.d.in_command = TRUE,
                        !.d.skip_until_eol = TRUE,
                        !.d.skip_started_at = Some(0),
                        !.d.pending_exit_code = None,
                        !.d.pending_pipestatus = None,
                        !.d.pending_pwd = None]
    IN  send_log_event(m2, CommandStart(cmd, best_cwd(m2.d)))

\* a start_command that keeps the pending fields of the command before
start_command_keeping_pending(m, cmd) ==
    LET m1 == IF m.d.in_command THEN send_end_event(m, 0, best_cwd(m.d)) ELSE m
        m2 == [m1 EXCEPT !.d.in_command = TRUE,
                         !.d.skip_until_eol = TRUE,
                         !.d.skip_started_at = Some(0)]
    IN  send_log_event(m2, CommandStart(cmd, best_cwd(m2.d)))

start_command(m, cmd) ==
    LET m1 == IF m.d.in_command THEN send_end_event(m, 0, best_cwd(m.d)) ELSE m
        m2 == [m1 EXCEPT !.d.in_command = TRUE,
                         !.d.skip_until_eol = TRUE,
                         !.d.skip_started_at = Some(0),
                         !.d.pending_exit_code = None,
                         !.d.pending_pipestatus = None,
                         !.d.pending_pwd = None]
    IN  send_log_event(m2, CommandStart(cmd, best_cwd(m2.d)))

\* a try_finish_when_ready that does not wait for the pwd
try_finish_without_pwd(m) ==
    IF m.d.in_command /\ m.d.pending_exit_code # None
    THEN LET m1 == send_end_event_with_pipe(m, m.d.pending_exit_code[1],
                                            m.d.pending_pipestatus,
                                            best_cwd(m.d))
         IN  [m1 EXCEPT !.d.in_command = FALSE,
                        !.d.pending_exit_code = None,
                        !.d.pending_pipestatus = None,
                        !.d.pending_pwd = None]
    ELSE m

\* a try_finish_when_ready that finalizes as soon as an exit code is
\* pending, with the pending pwd if there is one
try_finish_on_exit_code(m) ==
    IF m.d.in_command /\ m.d.pending_exit_code # None
    THEN LET m1 == send_end_event_with_pipe(
                       m, m.d.pending_exit_code[1], m.d.pending_pipestatus,
                       IF m.d.pending_pwd # None THEN m.d.pending_pwd[1]
                       ELSE best_cwd(m.d))
         IN  [m1 EXCEPT !.d.in_command = FALSE,
                        !.d.pending_exit_code = None,
                        !.d.pending_pipestatus = None,
                        !.d.pending_pwd = None]
    ELSE m

\* a try_finish_when_ready that leaves the pending pipestatus in place
try_finish_keeping_pipe(m) ==
    IF m.d.in_command /\ m.d.pending_exit_code # None /\ m.d.pending_pwd # None
    THEN LET m1 == send_end_event_with_pipe(m, m.d.pending_exit_code[1],
                                            m.d.pending_pipestatus,
                                            m.d.pending_pwd[1])
         IN  [m1 EXCEPT !.d.in_command = FALSE,
                        !.d.pending_exit_code = None,
                        !.d.pending_pwd = None]
    ELSE m

try_finish_when_ready(m) ==
    IF m.d.in_command /\ m.d.pending_exit_code # None /\ m.d.pending_pwd # None
    THEN LET m1 == send_end_event_with_pipe(m, m.d.pending_exit_code[1],
                                            m.d.pending_pipestatus,
                                            m.d.pending_pwd[1])
         IN  [m1 EXCEPT !.d.in_command = FALSE,
                        !.d.pending_exit_code = None,
                        !.d.pending_pipestatus = None,
                        !.d.pending_pwd = None]
    ELSE m

\* the RECLI_PIPE branch of handle_marker
handle_pipe(m, rest) ==
    LET s == trim(rest)
        a == strip_prefix(s, <<91>>)
        inner == IF a = None THEN None ELSE strip_suffix(a[1], <<93>>)
    IN  IF inner = None THEN m
        ELSE LET v == parse_parts(split_comma(inner[1], <<>>))
             IN  IF v # <<>>
                 THEN try_finish_when_ready(
                          [m EXCEPT !.d.pending_pipestatus = Some(v)])
                 ELSE m

\* a RECLI_END branch that keeps the pending exit code when the payload
\* does not parse
handle_end_keeping_code(m, rest) ==
    try_finish_when_ready(
        [m EXCEPT !.d.pending_exit_code =
                      IF parse_i32(trim(rest)) = None THEN @
                      ELSE parse_i32(trim(rest))])

\* the RECLI_END branch of handle_marker
handle_end(m, rest) ==
    try_finish_when_ready(
        [m EXCEPT !.d.pending_exit_code = parse_i32(trim(rest))])

handle_marker(m, marker) ==
    IF strip_prefix(marker, RECLI_START) # None
    THEN start_command(m, strip_prefix(marker, RECLI_START)[1])
    ELSE IF strip_prefix(marker, RECLI_END) # None
    THEN handle_end(m, strip_prefix(marker, RECLI_END)[1])
    ELSE IF strip_prefix(marker, RECLI_PWD) # None
    THEN LET pwd == strip_prefix(marker, RECLI_PWD)[1]
         IN  try_finish_when_ready(
                 [m EXCEPT !.d.pending_pwd = Some(pwd), !.d.last_pwd = Some(pwd)])
    ELSE IF strip_prefix(marker, RECLI_PIPE) # None
    THEN handle_pipe(m, strip_prefix(marker, RECLI_PIPE)[1])
    ELSE m

\* CommandDetector::finish
finish(m) ==
    LET m0 == [m EXCEPT !.d.partial_marker = <<>>]
    IN  IF m0.d.in_command
        THEN LET m1 == send_end_event(m0, 0, best_cwd(m0.d))
             IN  [m1 EXCEPT !.d.in_command = FALSE,
                            !.d.pending_exit_code = None,
                            !.d.pending_pwd = None]
        ELSE m0

\* ---------------------------------------------------------- process_output
\* the inner while loop: the first j >= from with buf[j] a line ending, or
\* Len(buf) + 1 when there is none
RECURSIVE find_terminator(_, _)
find_terminator(buf, from) ==
    IF from > Len(buf) \/ buf[from] = LF \/ buf[from] = CR THEN from
    ELSE find_terminator(buf, from + 1)

\* a stash that loses the 0x1e: buf[i+1..]
stash_without_rs(buf, i) == SubSeq(buf, i + 1, Len(buf))

\* the bytes stashed when a marker is incomplete: buf[i..]
stash(buf, i) == SubSeq(buf, i, Len(buf))

\* a scan that goes on at the marker's line ending: i = j
after_marker_at_terminator(j) == j

\* where the scan goes on after a marker whose line ending is at j
after_marker(j) == j + 1

\* History: the clock of the running echo skip shows the grace window or more
GraceElapsed(d) == d.skip_started_at # None /\ d.skip_started_at[1] >= GraceMs

\* a grace window that never runs out
timed_out_never(d) == FALSE

\* skip_started_at.map(|t| t.elapsed() >= 50ms).unwrap_or(false)
timed_out(d) == d.skip_started_at # None /\ d.skip_started_at[1] >= GraceMs

\* logging the display bytes of a call whether or not a command is open
should_log_when_idle(m) == m.out # <<>>

\* the condition under which the display bytes of a call are logged
should_log(m) == m.d.in_command /\ m.out # <<>>

\* position p of stream s lies in a marker span: a 0x1e at or before p with
\* no line ending between it and p (the span's own line ending included)
InMarker(s, p) ==
    \E q \in 1..p : s[q] = RS /\ \A r \in q..(p - 1) : s[r] # LF /\ s[r] # CR

\* History of one handled marker: which markers were seen since the last
\* RECLI_START, and who sent each CommandEnd.  Reads the stream and the
\* events only; the detector's fields are the code's business.
Observe(before, after, marker) ==
    LET isStart == strip_prefix(marker, RECLI_START) # None
        isEnd == ~isStart /\ strip_prefix(marker, RECLI_END) # None
        isPwd == ~isStart /\ ~isEnd /\ strip_prefix(marker, RECLI_PWD) # None
        g == before.g
        endSeen == IF isStart THEN FALSE ELSE g.end_seen \/ isEnd
        endOk == IF isStart THEN FALSE
                 ELSE IF isEnd
                 THEN parse_i32(trim(strip_prefix(marker, RECLI_END)[1])) # None
                 ELSE g.end_ok
        pwdSeen == IF isStart THEN FALSE ELSE g.pwd_seen \/ isPwd
        known == IF isPwd THEN Some(strip_prefix(marker, RECLI_PWD)[1])
                 ELSE g.known_pwd
        code == IF isStart THEN None
                ELSE IF isEnd
                THEN parse_i32(trim(strip_prefix(marker, RECLI_END)[1]))
                ELSE g.end_code
        new == SubSeq(after.sent, Len(before.sent) + 1, Len(after.sent))
        tag == IF isStart
               THEN [by |-> "start", end_seen |-> g.end_seen, end_ok |-> g.end_ok,
                     pwd_seen |-> g.pwd_seen, known_pwd |-> g.known_pwd,
                     end_code |-> g.end_code]
               ELSE [by |-> "markers", end_seen |-> endSeen, end_ok |-> endOk,
                     pwd_seen |-> pwdSeen, known_pwd |-> known,
                     end_code |-> code]
        nEnds == Cardinality({k \in 1..Len(new) : new[k].type = "CommandEnd"})
    IN  [after EXCEPT !.g.end_seen = endSeen, !.g.end_ok = endOk,
                      !.g.pwd_seen = pwdSeen, !.g.known_pwd = known,
                      !.g.end_code = code,
                      !.g.fin = @ \o [k \in 1..nEnds |-> tag],
                      !.g.just = IF isStart THEN "start"
                                 ELSE IF nEnds > 0 THEN "final" ELSE "other"]

\* how many CommandStart and CommandEnd events evs holds
NumLifecycle(evs) == Cardinality({k \in 1..Len(evs) : evs[k].type # "Output"})

\* a push that leaves line feeds out of the display bytes
push_without_lf(m, buf, i) ==
    IF buf[i] = LF THEN m
    ELSE [m EXCEPT !.out = Append(@, buf[i]),
                   !.g.shown = Append(@, m.g.base + i),
                   !.g.epoch = Append(@, NumLifecycle(m.g.events \o m.sent)),
                   !.g.idle = IF m.d.in_command THEN @ ELSE @ \cup {m.g.base + i}]

\* out.push(buf[i])
push(m, buf, i) ==
    [m EXCEPT !.out = Append(@, buf[i]),
              !.g.shown = Append(@, m.g.base + i),
              !.g.epoch = Append(@, NumLifecycle(m.g.events \o m.sent)),
              !.g.idle = IF m.d.in_command THEN @ ELSE @ \cup {m.g.base + i}]

\* the scanning loop of process_output, from index i of buf (1-based)
RECURSIVE Scan(_, _, _)
Scan(m, buf, i) ==
    IF i > Len(buf) THEN m
    ELSE IF buf[i] = RS
    THEN LET j == find_terminator(buf, i + 1)
         IN  IF j > Len(buf)
             THEN [m EXCEPT !.d.partial_marker = stash(buf, i)]
             ELSE LET marker == SubSeq(buf, i + 1, j - 1)
                  IN  Scan(Observe(m, handle_marker(m, marker), marker), buf,
                           after_marker(j))
    ELSE IF m.d.in_command /\ m.d.skip_until_eol
    THEN IF buf[i] = LF \/ buf[i] = CR \/ timed_out(m.d)
         THEN Scan(push([m EXCEPT !.d.skip_until_eol = FALSE,
                                  !.d.skip_started_at = None], buf, i),
                   buf, i + 1)
         ELSE Scan([m EXCEPT !.g.skipped = @ \cup {m.g.base + i},
                             !.g.late = @ \cup IF GraceElapsed(m.d)
                                               THEN {m.g.base + i} ELSE {}],
                   buf, i + 1)
    ELSE Scan(push(m, buf, i), buf, i + 1)

\* CommandDetector::process_output on detector d with history g: the
\* result's .out is the returned display bytes
process_output(d, g, data) ==
    LET buf == d.partial_marker \o data
        m0 == [d |-> [d EXCEPT !.partial_marker = <<>>],
               out |-> <<>>, sent |-> <<>>,
               g |-> [g EXCEPT !.base = Len(g.fed) - Len(d.partial_marker),
                               !.fed = @ \o data]]
        m1 == Scan(m0, buf, 1)
        m2 == IF should_log(m1) THEN send_log_event(m1, Output(m1.out)) ELSE m1
        now == {m1.g.shown[k] : k \in (Len(g.shown) + 1)..Len(m1.g.shown)}
    IN  [m2 EXCEPT !.g.display = @ \o m1.out,
                   !.g.events = @ \o m2.sent,
                   !.g.logged = IF should_log(m1) THEN @ \cup now ELSE @,
                   !.g.just = IF /\ buf # <<>>
                                 /\ InMarker(buf, Len(buf))
                                 /\ m1.d.partial_marker = <<>>
                              THEN @ ELSE "other"]

\* the history before anything was fed
NoHistory ==
    [base |-> 0, fed |-> <<>>, display |-> <<>>, shown |-> <<>>,
     epoch |-> <<>>, skipped |-> {}, late |-> {}, idle |-> {}, logged |-> {},
     dropped |-> {},
     end_seen |-> FALSE, end_ok |-> FALSE, pwd_seen |-> FALSE,
     known_pwd |-> None, end_code |-> None, fin |-> <<>>, events |-> <<>>,
     just |-> "other", ticked |-> FALSE, finished |-> FALSE]

\* ------------------------------------------------------------ CommandLog
\* 8 * 1024, the cap of the preview in bytes
PreviewCap == 8192

\* a file of a session's log directory
CommandsFile(log_dir) ==
    [name |-> "commands.json", dir |-> log_dir, ts |-> 0, seq |-> 0]
MetadataFile(log_dir) ==
    [name |-> "session_metadata.json", dir |-> log_dir, ts |-> 0, seq |-> 0]
\* log_dir.join("current.out")
SpoolFile(log_dir) ==
    [name |-> "current.out", dir |-> log_dir, ts |-> 0, seq |-> 0]
\* log_dir.join(format!("{}-{}.out", timestamp, seq))
OutFile(log_dir, timestamp, seq) ==
    [name |-> "out", dir |-> log_dir, ts |-> timestamp, seq |-> seq]

\* the file system with file f holding content; the file is created or
\* replaced
WriteFile(files, f, content) ==
    [g \in DOMAIN files \cup {f} |-> IF g = f THEN content ELSE files[g]]

\* the file system without file f
RemoveFile(files, f) == [g \in DOMAIN files \ {f} |-> files[g]]

\* String::from_utf8_lossy: valid UTF-8 is kept, and every maximal invalid
\* sequence becomes one U+FFFD, the three bytes EF BF BD
Replacement == <<239, 191, 189>>

\* the byte at index i, or 0 past the end
safe_get(s, i) == IF i <= Len(s) THEN s[i] ELSE 0

\* a continuation byte, 10xxxxxx
IsCont(b) == b \in 128..191

\* the length the lead byte announces, 0 for a byte that cannot lead
utf8_char_width(b) ==
    IF b < 128 THEN 1
    ELSE IF b \in 194..223 THEN 2
    ELSE IF b \in 224..239 THEN 3
    ELSE IF b \in 240..244 THEN 4
    ELSE 0

\* the second byte a three- or four-byte lead accepts
SecondOk(b, c) ==
    \/ b = 224 /\ c \in 160..191
    \/ b \in 225..236 /\ c \in 128..191
    \/ b = 237 /\ c \in 128..159
    \/ b \in 238..239 /\ c \in 128..191
    \/ b = 240 /\ c \in 144..191
    \/ b \in 241..243 /\ c \in 128..191
    \/ b = 244 /\ c \in 128..143

\* the decoder at index i of s: n bytes form a character (ok) or a maximal
\* invalid sequence
Utf8Step(s, i) ==
    LET b == s[i]
        w == utf8_char_width(b)
    IN  IF w = 1 THEN [n |-> 1, ok |-> TRUE]
        ELSE IF w = 0 THEN [n |-> 1, ok |-> FALSE]
        ELSE IF w = 2
        THEN (IF IsCont(safe_get(s, i + 1)) THEN [n |-> 2, ok |-> TRUE]
              ELSE [n |-> 1, ok |-> FALSE])
        ELSE IF ~SecondOk(b, safe_get(s, i + 1)) THEN [n |-> 1, ok |-> FALSE]
        ELSE IF ~IsCont(safe_get(s, i + 2)) THEN [n |-> 2, ok |-> FALSE]
        ELSE IF w = 3 THEN [n |-> 3, ok |-> TRUE]
        ELSE IF ~IsCont(safe_get(s, i + 3)) THEN [n |-> 3, ok |-> FALSE]
        ELSE [n |-> 4, ok |-> TRUE]

\* What the decoder puts out for the byte at index i.  A byte that is no
\* continuation byte always starts a sequence; a continuation byte belongs to
\* the sequence of the nearest such byte before it when that sequence
\* reaches it, and is an invalid sequence of its own otherwise.
LossyPiece(s, i) ==
    IF ~IsCont(s[i])
    THEN (IF Utf8Step(s, i).ok THEN <<s[i]>> ELSE Replacement)
    ELSE LET leads == {p \in 1..(i - 1) : p >= i - 3 /\ ~IsCont(s[p])}
         IN  IF leads = {} THEN Replacement
             ELSE LET p == CHOOSE q \in leads : \A r \in leads : r <= q
                      st == Utf8Step(s, p)
                  IN  IF p + st.n > i
                      THEN (IF st.ok THEN <<s[i]>> ELSE <<>>)
                      ELSE Replacement

\* the pieces of the bytes lo..hi, in order
RECURSIVE LossyConcat(_, _, _)
LossyConcat(s, lo, hi) ==
    IF lo > hi THEN <<>>
    ELSE IF lo = hi THEN LossyPiece(s, lo)
    ELSE LET mid == (lo + hi) \div 2
         IN  LossyConcat(s, lo, mid) \o LossyConcat(s, mid + 1, hi)

from_utf8_lossy(bytes) == LossyConcat(bytes, 1, Len(bytes))

\* CommandLog::new
NewCommandLog ==
    [entries |-> <<>>, current_cmd |-> <<>>, current_preview |-> <<>>,
     current_start_time |-> None, current_out_file |-> None]

\* The CommandLog operations work on c = [log, files, dirs, clock]: the
\* log, the files on disk, the directories that exist and the time.

\* a start_command that also empties the history, as clear() does
start_command_clearing(c, cmd_string, cwd, log_dir) ==
    LET ok == log_dir \in c.dirs
    IN  [c EXCEPT !.log.entries = <<>>,
                  !.log.current_cmd = cmd_string,
                  !.log.current_preview = <<>>,
                  !.log.current_start_time = Some(c.clock),
                  !.log.current_out_file =
                      IF ok THEN Some(SpoolFile(log_dir)) ELSE None,
                  !.files = IF ok THEN WriteFile(@, SpoolFile(log_dir), <<>>)
                            ELSE @]

\* CommandLog::start_command: File::create fails when log_dir is missing
log_start_command(c, cmd_string, cwd, log_dir) ==
    LET ok == log_dir \in c.dirs
    IN  [c EXCEPT !.log.current_cmd = cmd_string,
                  !.log.current_preview = <<>>,
                  !.log.current_start_time = Some(c.clock),
                  !.log.current_out_file =
                      IF ok THEN Some(SpoolFile(log_dir)) ELSE None,
                  !.files = IF ok THEN WriteFile(@, SpoolFile(log_dir), <<>>)
                            ELSE @]

\* CommandLog::append_output_bytes
append_output_bytes(c, bytes) ==
    LET f == c.log.current_out_file
        c1 == IF f # None /\ f[1] \in DOMAIN c.files
              THEN [c EXCEPT !.files[f[1]] = @ \o bytes]
              ELSE c
        len == Len(c.log.current_preview)
        remaining == PreviewCap - len
        take == IF Len(bytes) < remaining THEN Len(bytes) ELSE remaining
    IN  IF len < PreviewCap
        THEN [c1 EXCEPT !.log.current_preview =
                            @ \o from_utf8_lossy(SubSeq(bytes, 1, take))]
        ELSE c1

\* CommandLog::append_output
append_output(c, output) == append_output_bytes(c, output)

\* CommandLog::finish_command
finish_command(c, exit_code, pipestatus, cwd, log_dir) ==
    IF c.log.current_cmd = <<>> THEN c
    ELSE LET timestamp == c.clock
             duration_ms ==
                 IF c.log.current_start_time = None THEN None
                 ELSE Some(c.clock - c.log.current_start_time[1])
             f == c.log.current_out_file
             seq == Len(c.log.entries)
             final == OutFile(log_dir, timestamp, seq)
             renamed == f # None /\ f[1] \in DOMAIN c.files
                            /\ log_dir \in c.dirs
             entry == [cmd |-> c.log.current_cmd, cwd |-> cwd,
                       timestamp |-> timestamp, exit_code |-> exit_code,
                       output_preview |-> c.log.current_preview,
                       output_path |-> IF f # None THEN Some(final) ELSE None,
                       pipestatus |-> pipestatus,
                       duration_ms |-> duration_ms]
         IN  [c EXCEPT !.files =
                           IF renamed
                           THEN WriteFile(RemoveFile(@, f[1]), final, c.files[f[1]])
                           ELSE @,
                       !.log.entries = Append(@, entry),
                       !.log.current_cmd = <<>>,
                       !.log.current_preview = <<>>,
                       !.log.current_start_time = None,
                       !.log.current_out_file = None]

\* an Option in JSON: null, or the value itself
JsonOption(o) ==
    IF o = None THEN [null |-> TRUE, value |-> 0]
    ELSE [null |-> FALSE, value |-> o[1]]
FromJsonOption(j) == IF j.null THEN None ELSE Some(j.value)

\* a CommandEntry as a JSON object, and back
EntryToJson(e) ==
    [cmd |-> e.cmd, cwd |-> e.cwd, timestamp |-> e.timestamp,
     exit_code |-> e.exit_code, output_preview |-> e.output_preview,
     output_path |-> JsonOption(e.output_path),
     pipestatus |-> JsonOption(e.pipestatus),
     duration_ms |-> JsonOption(e.duration_ms)]
EntryFromJson(j) ==
    [cmd |-> j.cmd, cwd |-> j.cwd, timestamp |-> j.timestamp,
     exit_code |-> j.exit_code, output_preview |-> j.output_preview,
     output_path |-> FromJsonOption(j.output_path),
     pipestatus |-> FromJsonOption(j.pipestatus),
     duration_ms |-> FromJsonOption(j.duration_ms)]

\* the JSON document of a CommandLog: the fields that are not #[serde(skip)]
Serialized(log) ==
    [entries |-> [k \in 1..Len(log.entries) |-> EntryToJson(log.entries[k])]]

\* serde_json::from_str: the skipped fields take their defaults
Deserialized(doc) ==
    [entries |-> [k \in 1..Len(doc.entries) |-> EntryFromJson(doc.entries[k])],
     current_cmd |-> <<>>, current_preview |-> <<>>,
     current_start_time |-> None, current_out_file |-> None]

\* a load that takes over the accumulation fields of the log in memory
load_keeping_current(c, log_dir) ==
    IF CommandsFile(log_dir) \notin DOMAIN c.files THEN NewCommandLog
    ELSE [c.log EXCEPT
             !.entries = Deserialized(c.files[CommandsFile(log_dir)]).entries]

\* CommandLog::load_from_file
load_from_file(c, log_dir) ==
    IF CommandsFile(log_dir) \notin DOMAIN c.files THEN NewCommandLog
    ELSE [Deserialized(c.files[CommandsFile(log_dir)]) EXCEPT
             !.current_cmd = <<>>, !.current_preview = <<>>,
             !.current_start_time = None, !.current_out_file = None]

\* a get_recent that counts from the front
get_first(log, count) ==
    SubSeq(log.entries, 1,
           IF Len(log.entries) > count THEN count ELSE Len(log.entries))

\* CommandLog::get_recent
get_recent(log, count) ==
    LET start == IF Len(log.entries) > count
                 THEN Len(log.entries) - count ELSE 0
    IN  SubSeq(log.entries, start + 1, Len(log.entries))

\* CommandLog::save_to_file: fs::write fails when log_dir is missing
save_to_file(c, log_dir) ==
    IF log_dir \in c.dirs
    THEN [c EXCEPT !.files = WriteFile(@, CommandsFile(log_dir), Serialized(c.log))]
    ELSE c

\* a consumer that saves before it finishes the command and gives the
\* command up when the save fails
handle_event_save_first(c, event, log_dir) ==
    IF event.type = "CommandStart"
    THEN log_start_command(c, event.cmd, event.cwd, log_dir)
    ELSE IF event.type = "Output"
    THEN append_output(c, event.data)
    ELSE IF log_dir \notin c.dirs
    THEN [c EXCEPT !.log.current_cmd = <<>>]
    ELSE save_to_file(finish_command(c, event.exit_code, event.pipestatus,
                                     event.cwd, log_dir),
                      log_dir)

\* the consumer task's handling of one event, with the log directory of the
\* config it was spawned with
handle_event(c, event, log_dir) ==
    IF event.type = "CommandStart"
    THEN log_start_command(c, event.cmd, event.cwd, log_dir)
    ELSE IF event.type = "Output"
    THEN append_output(c, event.data)
    ELSE save_to_file(finish_command(c, event.exit_code, event.pipestatus,
                                     event.cwd, log_dir),
                      log_dir)

\* -------------------------------------------------------- SessionManager
\* the process ids of the recording process, of a second recli process and
\* of the process a leftover pid marker names
SelfPid == 2
PeerPid == 3
LeftPid == 4
Pids == {SelfPid, PeerPid, LeftPid}

\* u32::to_string
RECURSIVE to_string(_)
to_string(n) ==
    IF n < 10 THEN <<48 + n>> ELSE to_string(n \div 10) \o <<48 + (n % 10)>>

\* A u32 is kept as two 16-bit halves, [hi, lo], standing for
\* hi * 65536 + lo.
\* the digits of a u32, accumulated with checked_mul/checked_add: None on a
\* non-digit or on overflow past u32::MAX
RECURSIVE parse_u32_digits(_, _)
parse_u32_digits(s, acc) ==
    IF s = <<>> THEN Some(acc)
    ELSE IF ~IsDigit(Head(s)) THEN None
    ELSE LET lo == acc.lo * 10 + (Head(s) - 48)
             hi == acc.hi * 10 + (lo \div 65536)
         IN  IF hi > 65535 THEN None
             ELSE parse_u32_digits(Tail(s), [hi |-> hi, lo |-> lo % 65536])

\* str::parse::<u32>(): an optional '+', at least one digit, in range
parse_u32(s) ==
    IF s = <<>> THEN None
    ELSE IF Head(s) = 43
    THEN (IF Len(s) = 1 THEN None
          ELSE parse_u32_digits(Tail(s), [hi |-> 0, lo |-> 0]))
    ELSE parse_u32_digits(s, [hi |-> 0, lo |-> 0])

\* pid as i32: the same 32 bits read as two's complement
as_i32(pid) ==
    IF pid.hi >= 32768 THEN (pid.hi - 65536) * 65536 + pid.lo
    ELSE pid.hi * 65536 + pid.lo

\* libc::kill(pid, 0) == 0 for a caller that runs as the user: a positive
\* pid names a process, which must exist and belong to the user (EPERM
\* otherwise); 0 names the caller's own process group; a negative pid names
\* the process group -pid, here the group of the process with that id
kill_succeeds(owner, pid) ==
    IF pid > 0 THEN pid \in DOMAIN owner /\ owner[pid] = "user"
    ELSE IF pid = 0 THEN TRUE
    ELSE (-pid) \in DOMAIN owner /\ owner[-pid] = "user"

\* SessionManager::process_exists
process_exists(o, pid) == kill_succeeds(o.owner, as_i32(pid))

\* fs::read_to_string: Err on bytes that are not UTF-8
read_to_string(content) ==
    IF \A k \in 1..Len(content) : content[k] < 128 THEN Some(content) ELSE None

\* SessionManager::is_session_active on the system state o
is_session_active(o) ==
    IF o.pid_file = None THEN FALSE
    ELSE LET pid_str == read_to_string(o.pid_file[1])
             pid == IF pid_str = None THEN None ELSE parse_u32(trim(pid_str[1]))
         IN  IF pid = None THEN FALSE ELSE process_exists(o, pid[1])

\* the SessionConfig of a session started at time t: the session id and the
\* log directory are derived from the time, to the second
SessionConfig(t) ==
    [session_id |-> t, log_dir |-> t, started_at |-> t, shell |-> "zsh"]

\* SessionManager::new, with where its caller is in start_session (pc) and
\* what its last call returned (ret)
NoReturn == [op |-> "none", err |-> "", dir |-> None]

\* SessionManager::new (its sender and its CommandLog are variables of their
\* own), with the call in progress: pc is where start_session stands,
\* pending the config it is setting up, ret what the last call returned,
\* calls how many calls were made, started whether a start_session succeeded
NewManager ==
    [config |-> None, consumer |-> None, pc |-> "idle", pending |-> None,
     ret |-> NoReturn, calls |-> 0, started |-> FALSE]

\* the manager after a start_session that succeeded at time t
StartedManager(t) ==
    [config |-> Some(SessionConfig(t)), consumer |-> Some(SessionConfig(t)),
     pc |-> "idle", pending |-> None,
     ret |-> [op |-> "start", err |-> "", dir |-> Some(t)],
     calls |-> 1, started |-> TRUE]

\* ------------------------------------------------------------ PtySession
\* PtySession::new_with_logging, before run(): pc is where run() stands, raw
\* the mode of the real terminal, was_raw that enable_raw_mode has succeeded,
\* child the shell, terminated the flag the SIGTERM listener sets, forwarder
\* and reader_err the state of the two tasks, aborted that abort() was called
\* on the reader task, result what run() returns
NewPty ==
    [pc |-> "start", raw |-> FALSE, was_raw |-> FALSE, child |-> "none",
     terminated |-> FALSE, forwarder |-> "none", reader_err |-> FALSE,
     aborted |-> FALSE, result |-> "none"]

\* the PtySession inside input_loop: the child runs, the terminal is raw,
\* the forwarder and the reader are at work
RunningPty ==
    [pc |-> "loop", raw |-> TRUE, was_raw |-> TRUE, child |-> "alive",
     terminated |-> FALSE, forwarder |-> "running", reader_err |-> FALSE,
     aborted |-> FALSE, result |-> "none"]

\* ---------------------------------------------------------------- the locks
\* The mutexes: Arc<Mutex<CommandDetector>>, Arc<Mutex<SessionManager>> and
\* Arc<Mutex<CommandLog>>; the tasks that take them.
Locks == {"parser", "manager", "log"}
Tasks == {"reader", "teardown", "consumer"}

\* A task's code, as far as locks, I/O and the channel go: at each label
\* one step and the labels that can follow it.  The steps are io (a read
\* or write of a device or a file), lock and unlock (a guard taken and
\* dropped), send (send_log_event), recv (rx.recv().await), close
\* (log_sender = None) and abort (output_task.abort()); a task at "done"
\* has ended.
Instr(op, arg, next) == [op |-> op, arg |-> arg, next |-> next]

\* the reader task; one event at most stands for the events of one call
reader_task ==
    [read         |-> Instr("io", "pty", {"lock_p", "eof_lock_p", "done"}),
     lock_p       |-> Instr("lock", "parser", {"lock_m", "unlock_p"}),
     lock_m       |-> Instr("lock", "manager", {"send"}),
     send         |-> Instr("send", "", {"unlock_m"}),
     unlock_m     |-> Instr("unlock", "manager", {"unlock_p"}),
     unlock_p     |-> Instr("unlock", "parser", {"stdout"}),
     stdout       |-> Instr("io", "stdout", {"read", "done"}),
     eof_lock_p   |-> Instr("lock", "parser", {"eof_lock_m", "eof_unlock_p"}),
     eof_lock_m   |-> Instr("lock", "manager", {"eof_send"}),
     eof_send     |-> Instr("send", "", {"eof_unlock_m"}),
     eof_unlock_m |-> Instr("unlock", "manager", {"eof_unlock_p"}),
     eof_unlock_p |-> Instr("unlock", "parser", {"done"})]

\* a cleanup that takes the manager's lock around the finish() call
cleanup_locking_manager_first ==
    [raw_mode     |-> Instr("io", "terminal", {"lock_m0"}),
     lock_m0      |-> Instr("lock", "manager", {"lock_p"}),
     lock_p       |-> Instr("lock", "parser", {"send", "unlock_p"}),
     send         |-> Instr("send", "", {"unlock_p"}),
     unlock_p     |-> Instr("unlock", "parser", {"unlock_m"}),
     unlock_m     |-> Instr("unlock", "manager", {"abort"}),
     abort        |-> Instr("abort", "", {"stop_lock_m"}),
     stop_lock_m  |-> Instr("lock", "manager", {"pid_read"}),
     println      |-> Instr("io", "stdout", {"stop_unlock_m"}),
     stop_unlock_m |-> Instr("unlock", "manager", {"done"})]

\* run()'s cleanup around the call of stop_session_async
cleanup ==
    [raw_mode     |-> Instr("io", "terminal", {"lock_p"}),
     lock_p       |-> Instr("lock", "parser", {"lock_m", "unlock_p"}),
     lock_m       |-> Instr("lock", "manager", {"send"}),
     send         |-> Instr("send", "", {"unlock_m"}),
     unlock_m     |-> Instr("unlock", "manager", {"unlock_p"}),
     unlock_p     |-> Instr("unlock", "parser", {"abort"}),
     abort        |-> Instr("abort", "", {"stop_lock_m"}),
     stop_lock_m  |-> Instr("lock", "manager", {"pid_read"}),
     println      |-> Instr("io", "stdout", {"stop_unlock_m"}),
     stop_unlock_m |-> Instr("unlock", "manager", {"done"})]

\* SessionManager::stop_session, called with the manager's lock held; the
\* guard of the CommandLog lives to the end of the `if let` block
stop_session ==
    [pid_read     |-> Instr("io", "pid_file", {"lock_l", "stop_unlock_m"}),
     lock_l       |-> Instr("lock", "log", {"save"}),
     save         |-> Instr("io", "commands.json", {"metadata"}),
     metadata     |-> Instr("io", "session_metadata.json", {"unlock_l"}),
     unlock_l     |-> Instr("unlock", "log", {"pid_remove"}),
     pid_remove   |-> Instr("io", "pid_file", {"close"}),
     close        |-> Instr("close", "", {"println"})]

\* stop_session_async, which run() calls: the steps of stop_session
stop_session_async_task == stop_session

\* the teardown path of run(): the cleanup with the stop inside
teardown_task == cleanup @@ stop_session_async_task

\* the consumer task
consumer_task ==
    [recv         |-> Instr("recv", "", {"lock_l"}),
     lock_l       |-> Instr("lock", "log", {"apply"}),
     apply        |-> Instr("io", "spool", {"save", "unlock_l"}),
     save         |-> Instr("io", "commands.json", {"unlock_l"}),
     unlock_l     |-> Instr("unlock", "log", {"recv"})]

\* the code of task t and its first label
Program(t) ==
    IF t = "reader" THEN reader_task
    ELSE IF t = "teardown" THEN teardown_task
    ELSE consumer_task

First(t) ==
    IF t = "reader" THEN "read"
    ELSE IF t = "teardown" THEN "raw_mode"
    ELSE "recv"

\* no lock is held, every task is at its first step
NoLocks ==
    [held |-> [l \in Locks |-> "none"], pc |-> [t \in Tasks |-> First(t)]]

\* ------------------------------------------------------------------ retry
\* A u64 is four 16-bit limbs, the most significant first.
U64Max == <<65535, 65535, 65535, 65535>>
U64(n) == <<0, 0, 0, n>>

\* x + y: the sum modulo 2^64, and whether it overflowed
RECURSIVE AddLimbs(_, _, _, _)
AddLimbs(x, y, i, carry) ==
    IF i = 0 THEN [sum |-> <<>>, overflow |-> carry = 1]
    ELSE LET t == x[i] + y[i] + carry
             r == AddLimbs(x, y, i - 1, t \div 65536)
         IN  [sum |-> Append(r.sum, t % 65536), overflow |-> r.overflow]

checked_add(x, y) == AddLimbs(x, y, 4, 0)

\* x / 2
Half(x) ==
    [i \in 1..4 |-> (x[i] \div 2) + IF i > 1 /\ x[i - 1] % 2 = 1 THEN 32768 ELSE 0]

\* x.saturating_mul(1 << k)
RECURSIVE saturating_shl(_, _)
saturating_shl(x, k) ==
    IF k = 0 THEN x
    ELSE IF x[1] >= 32768 THEN U64Max
    ELSE saturating_shl(
             [i \in 1..4 |-> ((2 * x[i]) % 65536)
                                + IF i < 4 /\ x[i + 1] >= 32768 THEN 1 ELSE 0],
             k - 1)

\* usize::min
Min(a, b) == IF a < b THEN a ELSE b

\* a test that allows one attempt more
give_up_one_late(attempt, max_retries) == attempt > max_retries

\* retry, line 21: no retry is left after this failed attempt
give_up(attempt, max_retries) == attempt >= max_retries

\* no call of retry() is under way
NoRetry == [pc |-> "idle"]

\* ------------------------------------------------------------ the stream
\* how many items the child writes in a run read at arbitrary byte offsets
MaxItems == 3
\* how many items the child writes in a run read one item at a time
MaxFrames == 4

\* a marker frame as the shell hook's printf '\x1e%s\n' writes it; the
\* pty may turn the line ending into "\r\n"
Frame(token, terminator) == <<RS>> \o token \o <<terminator>>

\* "RECLI_START:c"
StartC == Frame(RECLI_START \o <<99>>, LF)
\* "RECLI_END:0" and the unparsable "RECLI_END:x"
End0 == Frame(RECLI_END \o <<48>>, LF)
EndX == Frame(RECLI_END \o <<120>>, LF)
\* "RECLI_PWD:/p"
PwdP == Frame(RECLI_PWD \o <<47, 112>>, CR)
\* "RECLI_PIPE:[0,1]"
Pipe01 == Frame(RECLI_PIPE \o <<91, 48, 44, 49, 93>>, LF)
\* "RECLI_DEBUG:", a token the parser does not know
Debug == Frame(<<82, 69, 67, 76, 73, 95, 68, 69, 66, 85, 71, 58>>, LF)

\* what the child writes in the runs read at arbitrary byte offsets
ByteItems == { <<97>>, <<LF>>, StartC, End0, PwdP }

\* what the child writes in the runs read one item at a time
FrameItems ==
    { <<97>>, <<LF>>, StartC, End0, EndX, PwdP, Pipe01, Debug }

VARIABLES
    det,         \* the CommandDetector
    log_sender,  \* SessionManager.log_sender is Some
    queue,       \* the unbounded channel's contents
    received,    \* the events the consumer task has taken, in order
    wire,        \* bytes the child has written that the reader has not read
    items,       \* how many items the child has written
    reading,     \* the reader has taken its first chunk
    reader_done, \* the reader loop has seen end of stream and exited
    torn,        \* teardown has made its finish() call
    hist,        \* history of the parser's calls
    last,        \* the last call of finish(): the detector before it and
                 \* what it sent (op "other" after any other step)
    mgr,         \* the SessionManager of each recli process
    os,          \* the pid marker, the process table, the log directories,
                 \* their files and the time
    command_log, \* the CommandLog of the recording process
    pty,         \* the PtySession of the recording process: where run()
                 \* stands, the terminal mode, the child, the tasks
    locks,       \* the three mutexes and where the three tasks stand in
                 \* their locking
    retrying     \* a call of retry(): its arguments, its attempts, its result

\* the recording process and a second recli process
Procs == {"self", "peer"}
PidOf(p) == IF p = "self" THEN SelfPid ELSE PeerPid

sessvars == <<mgr, os, command_log>>

vars == <<det, log_sender, queue, received, wire, items, reading,
          reader_done, torn, hist, last, mgr, os, command_log, pty, locks, retrying>>

\* the system after the recording process has started its session at time
\* 0: the log directory exists, the pid marker holds its pid
StartedSystem ==
    [pid_file |-> Some(to_string(SelfPid)),
     owner |-> [q \in Pids |-> IF q = LeftPid THEN "none" ELSE "user"],
     dirs |-> {0}, files |-> <<>>, clock |-> 0]

NoCall == [op |-> "other", pre |-> NewDetector, sent |-> <<>>]

\* The state after start_session and CommandDetector::new: the sender is
\* installed, the consumer task waits on an empty channel.
Init ==
    /\ det = NewDetector
    /\ log_sender = TRUE
    /\ queue = <<>>
    /\ received = <<>>
    /\ wire = <<>>
    /\ items = 0
    /\ reading = FALSE
    /\ reader_done = FALSE
    /\ torn = FALSE
    /\ hist = NoHistory
    /\ last = NoCall
    /\ mgr = [p \in Procs |-> IF p = "self" THEN StartedManager(0) ELSE NewManager]
    /\ os = StartedSystem
    /\ command_log = NewCommandLog
    /\ pty = RunningPty
    /\ locks = NoLocks
    /\ retrying = NoRetry

\* a send_log_event that queues the events whether or not a sender exists
enqueue_without_sender(q, sent) == q \o sent

\* SessionManager::send_log_event for the events of one call, in order
enqueue(q, sent) == IF log_sender THEN q \o sent ELSE q

\* the child shell writes one more item to the pty, before the reader's
\* first read
Emit(item) ==
    /\ ~reading /\ ~reader_done
    /\ items < MaxItems
    /\ wire' = wire \o item
    /\ items' = items + 1
    /\ UNCHANGED <<det, log_sender, queue, received, reading, reader_done,
                   torn, hist, last>>
    /\ UNCHANGED <<sessvars, pty, locks, retrying>>

\* the child shell writes one item to the drained pty
Write(item) ==
    /\ wire = <<>> /\ ~reader_done
    /\ items < MaxFrames
    /\ wire' = item
    /\ items' = items + 1
    /\ UNCHANGED <<det, log_sender, queue, received, reading, reader_done,
                   torn, hist, last>>
    /\ UNCHANGED <<sessvars, pty, locks, retrying>>

\* the reader task: pty_reader.read returned the next n bytes, which go
\* through process_output
ProcessOutput(n) ==
    /\ ~reader_done
    /\ n \in 1..Len(wire)
    /\ LET m == process_output(det, hist, SubSeq(wire, 1, n))
       IN  /\ det' = m.d
           /\ hist' = m.g
           /\ queue' = enqueue(queue, m.sent)
    /\ last' = NoCall
    /\ wire' = SubSeq(wire, n + 1, Len(wire))
    /\ reading' = TRUE
    /\ UNCHANGED <<log_sender, received, items, reader_done, torn>>
    /\ UNCHANGED <<sessvars, pty, locks, retrying>>

\* a call of finish(): the detector, the history and the channel after it
Finish ==
    LET m == finish([d |-> det, out |-> <<>>, sent |-> <<>>, g |-> hist])
        from == Len(hist.fed) - Len(det.partial_marker)
    IN  /\ det' = m.d
        /\ hist' = [m.g EXCEPT
                       !.dropped = @ \cup ((from + 1)..Len(hist.fed)),
                       !.fin = @ \o [k \in 1..Len(m.sent) |->
                                        [by |-> "finish",
                                         end_seen |-> hist.end_seen,
                                         end_ok |-> hist.end_ok,
                                         pwd_seen |-> hist.pwd_seen,
                                         known_pwd |-> hist.known_pwd,
                                         end_code |-> hist.end_code]],
                       !.events = @ \o m.sent,
                       !.just = "other",
                       !.finished = TRUE]
        /\ queue' = enqueue(queue, m.sent)
        /\ last' = [op |-> "finish", pre |-> det, sent |-> m.sent]

\* the reader task: read returned Ok(0); it calls finish() and leaves its
\* loop
ReaderEof ==
    /\ ~reader_done
    /\ wire = <<>>
    /\ Finish
    /\ reader_done' = TRUE
    /\ UNCHANGED <<log_sender, received, wire, items, reading, torn>>
    /\ UNCHANGED <<sessvars, pty, locks, retrying>>

\* run()'s cleanup: finish() on the shared detector, while the reader task
\* may still be in its loop
TeardownFinish ==
    /\ ~torn
    /\ Finish
    /\ torn' = TRUE
    /\ UNCHANGED <<log_sender, received, wire, items, reading, reader_done>>
    /\ UNCHANGED <<sessvars, pty, locks, retrying>>

\* the grace window of the running echo skip passes
Tick ==
    /\ det.skip_started_at # None
    /\ det.skip_started_at[1] < GraceMs
    /\ det' = [det EXCEPT !.skip_started_at = Some(GraceMs)]
    /\ hist' = [hist EXCEPT !.ticked = TRUE, !.just = "other"]
    /\ last' = NoCall
    /\ UNCHANGED <<log_sender, queue, received, wire, items, reading,
                   reader_done, torn>>
    /\ UNCHANGED <<sessvars, pty, locks, retrying>>

\* the consumer task: rx.recv() returns the oldest queued event, which is
\* applied to the CommandLog; after a CommandEnd the log is saved
Recv ==
    /\ os.owner[SelfPid] = "user"
    /\ mgr["self"].consumer # None
    /\ queue # <<>>
    /\ received' = Append(received, Head(queue))
    /\ queue' = Tail(queue)
    /\ LET c == handle_event([log |-> command_log, files |-> os.files,
                              dirs |-> os.dirs, clock |-> os.clock],
                             Head(queue), mgr["self"].consumer[1].log_dir)
       IN  /\ command_log' = c.log
           /\ os' = [os EXCEPT !.files = c.files]
    /\ UNCHANGED <<det, log_sender, wire, items, reading, reader_done, torn,
                   hist, last, mgr, pty, locks, retrying>>

\* runs in which the reader's chunks end at arbitrary byte offsets; once
\* teardown has run the child is gone and a read returns all that is left
Next ==
    \/ \E item \in ByteItems : Emit(item)
    \/ \E n \in 1..Len(wire) : (torn => n = Len(wire)) /\ ProcessOutput(n)
    \/ ReaderEof
    \/ TeardownFinish
    \/ Tick

Spec == Init /\ [][Next]_vars

\* runs in which every chunk is one item, with the consumer task
NextFrames ==
    \/ \E item \in FrameItems : Write(item)
    \/ (wire # <<>> /\ ProcessOutput(Len(wire)))
    \/ ReaderEof
    \/ TeardownFinish
    \/ Tick
    \/ Recv

SpecFrames == Init /\ [][NextFrames]_vars

\* runs that feed a stream to a fresh parser in one call, or in two calls
\* split at any byte offset, back to back
NextSplit ==
    \/ \E item \in ByteItems : Emit(item)
    \/ \E n \in 1..Len(wire) : (reading => n = Len(wire)) /\ ProcessOutput(n)

SpecSplit == Init /\ [][NextSplit]_vars

\* ------------------------------------------------------------- properties
\* the positions of the stream fed so far
Fed == 1..Len(hist.fed)

\* the positions of the stream whose bytes were returned for display
Shown == {hist.shown[k] : k \in 1..Len(hist.shown)}

\* C1: as long as no finish() has discarded a carryover, the display bytes
\* returned so far are the fed bytes outside marker spans (complete ones,
\* and the unterminated one held back at the end) and outside the echo-skip
\* window: each exactly once, unchanged and in the order fed, whatever the
\* chunking.
C1_PassThrough ==
    hist.dropped = {} =>
        /\ Len(hist.display) = Len(hist.shown)
        /\ \A k \in 1..Len(hist.shown) : hist.display[k] = hist.fed[hist.shown[k]]
        /\ \A k \in 1..(Len(hist.shown) - 1) : hist.shown[k] < hist.shown[k + 1]
        /\ Shown = {p \in Fed : ~InMarker(hist.fed, p) /\ p \notin hist.skipped}
        /\ \A p \in hist.skipped : p \in Fed /\ ~InMarker(hist.fed, p)

\* prefix "a", the START frame, suffix "a": the prefix is displayed, the
\* suffix is eaten by the skip window
C1_Witness ==
    /\ hist.fed = <<97>> \o StartC \o <<97>>
    /\ hist.dropped = {}
    /\ hist.display = <<97>>
    /\ hist.skipped = {Len(hist.fed)}

RECURSIVE MergeOutputs(_)
MergeOutputs(evs) ==
    IF Len(evs) < 2 THEN evs
    ELSE IF evs[1].type = "Output" /\ evs[2].type = "Output"
    THEN MergeOutputs(<<Output(evs[1].data \o evs[2].data)>>
                      \o SubSeq(evs, 3, Len(evs)))
    ELSE <<evs[1]>> \o MergeOutputs(Tail(evs))

\* C3: a stream fed to a fresh parser in two back-to-back calls, split at
\* any byte offset, gives the display bytes and the events (lifecycle
\* events in order, Output bytes per command) of the same stream fed in
\* one call.
C3_SplitEqualsWhole ==
    (reading /\ wire = <<>>) =>
        LET whole == process_output(NewDetector, NoHistory, hist.fed)
        IN  /\ hist.display = whole.out
            /\ MergeOutputs(hist.events) = MergeOutputs(whole.sent)

\* the positions of the unterminated marker at the end of stream s
Pending(s) ==
    {p \in 1..Len(s) : InMarker(s, p) /\ \A r \in p..Len(s) : s[r] # LF /\ s[r] # CR}

\* C4: in every reachable state the bytes of the unterminated marker at
\* the end of the fed stream are the carryover, whole, and none of them
\* has been displayed.
C4_CarryoverKept ==
    /\ det.partial_marker =
           SubSeq(hist.fed, Len(hist.fed) - Cardinality(Pending(hist.fed)) + 1,
                  Len(hist.fed))
    /\ Shown \cap Pending(hist.fed) = {}

\* the cwd a synthesized CommandEnd carries: the last RECLI_PWD payload seen
\* in the stream, the process's directory when there was none
KnownCwd(known_pwd) == IF known_pwd # None THEN known_pwd[1] ELSE ProcessCwd

\* C9: finish() with a command open sends exactly one CommandEnd (exit
\* code 0, last known pwd) and closes the command; finish() with no command
\* open sends nothing and leaves the parser as it was.
C9_FinishContract ==
    last.op = "finish" =>
        IF last.pre.in_command
        THEN /\ last.sent = <<CommandEnd(0, None, KnownCwd(hist.known_pwd))>>
             /\ ~det.in_command
        ELSE /\ last.sent = <<>>
             /\ det = last.pre

\* C10: a display byte that was scanned while no command was open is in
\* no Output event.
C10_LoggedOnlyInCommand == hist.logged \cap hist.idle = {}

\* the CommandStart and CommandEnd events among evs, in order
Lifecycle(evs) == SelectSeq(evs, LAMBDA e : e.type # "Output")

\* the index in the sent events of the k-th CommandEnd
EndIndex(k) ==
    LET ends == {i \in 1..Len(hist.events) : hist.events[i].type = "CommandEnd"}
    IN  CHOOSE i \in ends : Cardinality({j \in ends : j <= i}) = k

\* the event at index k comes while a command is open: the lifecycle event
\* before it is a CommandStart
WhileOpen(k) ==
    \E s \in 1..(k - 1) :
        /\ hist.events[s].type = "CommandStart"
        /\ \A j \in (s + 1)..(k - 1) : hist.events[j].type = "Output"

PendingCleared ==
    /\ det.pending_exit_code = None
    /\ det.pending_pipestatus = None
    /\ det.pending_pwd = None

\* C5 as claimed: marker processing finalizes the open command if and only
\* if a RECLI_END and a RECLI_PWD were seen since the last RECLI_START.
C5_FinalizeIffEndAndPwd ==
    /\ det.in_command => ~(hist.end_seen /\ hist.pwd_seen)
    /\ \A k \in 1..Len(hist.fin) :
           hist.fin[k].by = "markers" =>
               hist.fin[k].end_seen /\ hist.fin[k].pwd_seen

\* C5, amended: marker processing finalizes the open command if and only
\* if, since the last RECLI_START, a RECLI_PWD was seen and the most recent
\* RECLI_END carried a parsable exit code (RECLI_PIPE or not); the
\* CommandEnd carries that exit code and that pwd, and the command and the
\* pending fields are cleared.  Every other CommandEnd is one synthesized
\* by a repeated START or by finish(), with exit code 0 and no pipestatus.
C5_FinalizeIffCodeAndPwd ==
    /\ det.in_command => ~(hist.end_ok /\ hist.pwd_seen)
    /\ Len(hist.fin) =
           Cardinality({i \in 1..Len(hist.events) :
                            hist.events[i].type = "CommandEnd"})
    /\ \A k \in 1..Len(hist.fin) :
           LET e == hist.events[EndIndex(k)]
           IN  IF hist.fin[k].by = "markers"
               THEN /\ hist.fin[k].end_ok /\ hist.fin[k].pwd_seen
                    /\ e.exit_code = hist.fin[k].end_code[1]
                    /\ e.cwd = hist.fin[k].known_pwd[1]
               ELSE /\ hist.fin[k].by \in {"start", "finish"}
                    /\ e.exit_code = 0 /\ e.pipestatus = None
    /\ hist.just = "final" => ~det.in_command /\ PendingCleared

\* START, END:0, PIPE:[0,1], PWD:/p has just been read: the command was
\* finalized at the PWD, with the pipestatus
C5_Witness ==
    /\ hist.just = "final"
    /\ hist.events = <<CommandStart(<<99>>, ProcessCwd),
                       CommandEnd(0, Some(<<0, 1>>), <<47, 112>>)>>

\* C6: the CommandStart and CommandEnd events sent alternate, starting
\* with a CommandStart, and a command is open exactly when the last of them
\* is a CommandStart.
C6_OneOpenCommand ==
    LET life == Lifecycle(hist.events)
    IN  /\ \A k \in 1..Len(life) :
               life[k].type = IF k % 2 = 1 THEN "CommandStart" ELSE "CommandEnd"
        /\ det.in_command <=> (Len(life) % 2 = 1)

\* two commands were opened, the first closed by the second's START
C6_Witness ==
    /\ Len(Lifecycle(hist.events)) = 3
    /\ Len(hist.fin) = 1 /\ hist.fin[1].by = "start"
    /\ det.in_command

\* C7: a RECLI_START that finds a command open sends one CommandEnd for it
\* (exit code 0, no pipestatus, the last known pwd) right before its own
\* CommandStart, and right after a START the skip window is freshly started
\* and no pending field is set.
C7_DoubleStart ==
    /\ \A k \in 1..Len(hist.fin) :
           hist.fin[k].by = "start" =>
               LET e == EndIndex(k)
               IN  /\ hist.events[e] =
                          CommandEnd(0, None, KnownCwd(hist.fin[k].known_pwd))
                   /\ WhileOpen(e)
                   /\ e < Len(hist.events)
                   /\ hist.events[e + 1].type = "CommandStart"
    /\ LET life == Lifecycle(hist.events)
       IN  \A k \in 2..Len(life) :
               life[k].type = "CommandStart" => life[k - 1].type = "CommandEnd"
    /\ hist.just = "start" =>
           /\ det.in_command /\ det.skip_until_eol
           /\ det.skip_started_at = Some(0)
           /\ PendingCleared

\* START, PWD:/p, START has just been read
C7_Witness ==
    /\ hist.just = "start"
    /\ hist.events = <<CommandStart(<<99>>, ProcessCwd),
                       CommandEnd(0, None, <<47, 112>>),
                       CommandStart(<<99>>, <<47, 112>>)>>

\* C8: every Output event is sent while a command is open, after that
\* command's CommandStart and before its CommandEnd, and the consumer takes
\* the events in the order they were sent.
C8_EventOrder ==
    /\ \A k \in 1..Len(hist.events) :
           hist.events[k].type = "Output" => WhileOpen(k)
    /\ received \o queue = hist.events

\* the consumer has taken a command's CommandStart, its Output and its
\* CommandEnd
C8_Witness ==
    /\ Len(received) = 3
    /\ received[1].type = "CommandStart"
    /\ received[2].type = "Output"
    /\ received[3].type = "CommandEnd"

\* ------------------------------------------------- the "echo hi" scenario
\* "echo hi"
EchoHi == <<101, 99, 104, 111, 32, 104, 105>>
\* "/home/u"
HomeU == <<47, 104, 111, 109, 101, 47, 117>>
\* "hi\n"
HiLine == <<104, 105, LF>>

\* "\x1eRECLI_START:echo hi\nhi\n\x1eRECLI_END:0\n\x1eRECLI_PWD:/home/u\n"
EchoHiInput ==
    Frame(RECLI_START \o EchoHi, LF) \o HiLine
        \o Frame(RECLI_END \o <<48>>, LF) \o Frame(RECLI_PWD \o HomeU, LF)

\* a fresh parser with the whole scenario waiting to be read
InitEchoHi ==
    /\ det = NewDetector
    /\ log_sender = TRUE
    /\ queue = <<>>
    /\ received = <<>>
    /\ wire = EchoHiInput
    /\ items = 1
    /\ reading = FALSE
    /\ reader_done = FALSE
    /\ torn = FALSE
    /\ hist = NoHistory
    /\ last = NoCall
    /\ mgr = [p \in Procs |-> IF p = "self" THEN StartedManager(0) ELSE NewManager]
    /\ os = StartedSystem
    /\ command_log = NewCommandLog
    /\ pty = RunningPty
    /\ locks = NoLocks
    /\ retrying = NoRetry

\* the scenario read in one call or in chunks cut at any byte offset
NextEchoHi ==
    \/ \E n \in 1..Len(wire) : ProcessOutput(n)
    \/ Tick

SpecEchoHi == InitEchoHi /\ [][NextEchoHi]_vars

\* C11: once the whole "echo hi" scenario has been fed to a fresh parser,
\* the events sent are CommandStart{"echo hi"}, Output{"hi\n"} and
\* CommandEnd{0, "/home/u"}, in that order, and the display bytes are "hi\n".
C11_EchoHiScenario ==
    (wire = <<>> /\ hist.fed = EchoHiInput) =>
        /\ MergeOutputs(hist.events) =
               <<CommandStart(EchoHi, ProcessCwd), Output(HiLine),
                 CommandEnd(0, None, HomeU)>>
        /\ hist.display = HiLine

\* ------------------------------------------------------- RECLI_PIPE lists
\* "RECLI_PIPE:[0,1,2]"
Pipe012 == Frame(RECLI_PIPE \o <<91, 48, 44, 49, 44, 50, 93>>, LF)
\* "RECLI_PIPE:[0,x,2]", a list with an element that is no integer
Pipe0x2 == Frame(RECLI_PIPE \o <<91, 48, 44, 120, 44, 50, 93>>, LF)
\* "RECLI_PIPE:[]"
PipeEmpty == Frame(RECLI_PIPE \o <<91, 93>>, LF)

\* what the child writes in the runs about pipestatus lists
PipeItems == { StartC, End0, PwdP, Pipe012, Pipe0x2, PipeEmpty }

\* runs in which every chunk is one marker frame
NextPipe ==
    \/ \E item \in PipeItems : Write(item)
    \/ (wire # <<>> /\ ProcessOutput(Len(wire)))

SpecPipe == Init /\ [][NextPipe]_vars

\* C12: reading "RECLI_PIPE:[0,1,2]" sets the pending pipestatus to
\* [0,1,2]; reading a list with an unparsable element ("[0,x,2]") or an
\* empty list leaves the pending pipestatus as it was, no partial list is
\* stored; and after any of them a command with a parsable END and a PWD
\* is not left open.
C12_PipeParsing ==
    [][ /\ (wire = Pipe012 /\ wire' = <<>>) =>
               det'.pending_pipestatus = Some(<<0, 1, 2>>)
        /\ (wire \in {Pipe0x2, PipeEmpty} /\ wire' = <<>>) =>
               det'.pending_pipestatus = det.pending_pipestatus
        /\ det'.in_command => ~(hist'.end_ok /\ hist'.pwd_seen) ]_vars

\* ------------------------------------------------- END without a PWD
\* the CommandEnd events a step adds that marker processing finalized
NewMarkerEnds ==
    {k \in (Len(hist.fin) + 1)..Len(hist'.fin) : hist'.fin[k].by = "markers"}

\* C13 as claimed: reading a RECLI_END never finalizes a command, whatever
\* markers preceded the END; only a RECLI_PWD that arrives after it does.
C13_EndNeverFinalizes ==
    [][ (wire \in {End0, EndX} /\ wire' = <<>>) => NewMarkerEnds = {} ]_vars

\* C13, amended: as long as no RECLI_PWD was seen since the last
\* RECLI_START, marker processing sends no CommandEnd, neither at a
\* RECLI_END nor at anything read after it, until a RECLI_PWD is read; a
\* RECLI_END read after the RECLI_PWD of the same command does finalize.
C13_EndWithoutPwd ==
    [][ (wire # <<>> /\ wire' = <<>> /\ wire # PwdP /\ ~hist.pwd_seen) =>
            NewMarkerEnds = {} ]_vars

\* START, END:0 and an unknown marker were read, no PWD: the command is
\* still open with its exit code pending
C13_Witness ==
    /\ det.in_command
    /\ det.pending_exit_code = Some(0)
    /\ hist.end_seen /\ ~hist.pwd_seen
    /\ hist.fed = StartC \o End0 \o Debug

\* ------------------------------------------------------- no-marker chunks
\* the chunk a process_output step was given, and whether it is free of 0x1e
Chunk == SubSeq(hist'.fed, Len(hist.fed) + 1, Len(hist'.fed))
NoMarkerChunk ==
    /\ Len(hist'.fed) > Len(hist.fed)
    /\ \A k \in 1..Len(Chunk) : Chunk[k] # RS

\* C14 as claimed: process_output of a chunk with no 0x1e returns exactly
\* the chunk, in any parser state, and sends no event when no command is
\* open.
C14_NoMarkerIdentity ==
    [][ NoMarkerChunk =>
            /\ hist'.display = hist.display \o Chunk
            /\ ~det.in_command => hist'.events = hist.events ]_vars

\* C14, amended: process_output of a chunk with no 0x1e returns exactly the
\* chunk when no partial marker is carried over and no echo-skip window is
\* running, and sends no event when in addition no command is open.
C14_NoMarkerIdentityWhenClear ==
    [][ (NoMarkerChunk /\ det.partial_marker = <<>>) =>
            /\ ~(det.in_command /\ det.skip_until_eol) =>
                   hist'.display = hist.display \o Chunk
            /\ ~det.in_command => hist'.events = hist.events ]_vars

\* "a\n" was fed to the fresh parser and came back whole, with no event
C14_Witness ==
    /\ hist.fed = <<97, LF>>
    /\ hist.display = <<97, LF>>
    /\ hist.events = <<>>
    /\ ~hist.finished

\* ---------------------------------------------------------------- sessions
\* how many start_session and stop_session calls a process makes
MaxCalls == 2
\* how many events are sent through send_log_event
MaxEvents == 2
\* how many seconds pass
MaxClock == 1

\* what an earlier run or an accident may have left in session.pid: nothing,
\* the pid of a process of that run, "0", or text that is no number
LeftoverMarkers == { None, Some(to_string(LeftPid)), Some(<<48>>), Some(<<120>>) }

\* the events a caller of send_log_event sends
SessionEvents ==
    { CommandStart(<<99>>, ProcessCwd), CommandEnd(0, None, ProcessCwd) }

\* Two recli processes before either has started a session.  The process
\* the leftover marker names is gone, or its pid now belongs to a process of
\* the user or of another user.
InitSession ==
    /\ det = NewDetector
    /\ log_sender = FALSE
    /\ queue = <<>>
    /\ received = <<>>
    /\ wire = <<>>
    /\ items = 0
    /\ reading = FALSE
    /\ reader_done = FALSE
    /\ torn = FALSE
    /\ hist = NoHistory
    /\ last = NoCall
    /\ mgr = [p \in Procs |-> NewManager]
    /\ \E left \in LeftoverMarkers, who \in {"none", "user", "other"} :
           os = [pid_file |-> left,
                 owner |-> [q \in Pids |-> IF q = LeftPid THEN who ELSE "user"],
                 dirs |-> {}, files |-> <<>>, clock |-> 0]
    /\ command_log = NewCommandLog
    /\ pty = NewPty
    /\ locks = NoLocks
    /\ retrying = NoRetry

parser == <<det, wire, items, reading, reader_done, torn, hist>>

\* start_session, lines 61-63: the active-session check
StartCheck(p) ==
    /\ os.owner[PidOf(p)] = "user"
    /\ mgr[p].pc = "idle" /\ ~mgr[p].started
    /\ mgr[p].calls < MaxCalls
    /\ mgr' = [mgr EXCEPT
                  ![p].calls = @ + 1,
                  ![p].pc = IF is_session_active(os) THEN "idle" ELSE "create",
                  ![p].ret = IF is_session_active(os)
                             THEN [op |-> "start",
                                   err |-> "session already active",
                                   dir |-> None]
                             ELSE NoReturn]
    /\ last' = NoCall
    /\ UNCHANGED <<pty, locks, retrying, parser, log_sender, queue, received, os, command_log>>

\* start_session, lines 66-74: the session id and the log directory
StartCreate(p) ==
    /\ os.owner[PidOf(p)] = "user"
    /\ mgr[p].pc = "create"
    /\ os' = [os EXCEPT !.dirs = @ \cup {SessionConfig(os.clock).log_dir}]
    /\ mgr' = [mgr EXCEPT ![p].pc = "write",
                          ![p].pending = Some(SessionConfig(os.clock))]
    /\ last' = NoCall
    /\ UNCHANGED <<pty, locks, retrying, parser, log_sender, queue, received, command_log>>

\* start_session, lines 76-121: the pid marker is written, the channel and
\* the consumer task are set up, the config is stored.  The sender of the
\* second process is not kept.
StartWrite(p) ==
    /\ os.owner[PidOf(p)] = "user"
    /\ mgr[p].pc = "write"
    /\ os' = [os EXCEPT !.pid_file = Some(to_string(PidOf(p)))]
    /\ log_sender' = IF p = "self" THEN TRUE ELSE log_sender
    /\ mgr' = [mgr EXCEPT ![p].pc = "idle",
                          ![p].config = mgr[p].pending,
                          ![p].consumer = mgr[p].pending,
                          ![p].pending = None,
                          ![p].started = TRUE,
                          ![p].ret = [op |-> "start", err |-> "",
                                      dir |-> Some(mgr[p].pending[1].log_dir)]]
    /\ last' = NoCall
    /\ UNCHANGED <<pty, locks, retrying, parser, queue, received, command_log>>

\* the CommandLog of p's manager: the second process logs no command
LogOf(p) == IF p = "self" THEN command_log ELSE NewCommandLog

\* SessionManager::stop_session
StopSession(p) ==
    /\ os.owner[PidOf(p)] = "user"
    /\ mgr[p].pc = "idle"
    /\ mgr[p].calls < MaxCalls
    /\ last' = NoCall
    /\ IF ~is_session_active(os)
       THEN /\ mgr' = [mgr EXCEPT ![p].calls = @ + 1,
                                  ![p].ret = [op |-> "stop", err |-> "",
                                              dir |-> None]]
            /\ UNCHANGED <<os, log_sender>>
       ELSE IF mgr[p].config # None /\ mgr[p].config[1].log_dir \notin os.dirs
       THEN \* lines 134, 139: the save fails and `?` returns the error
            /\ mgr' = [mgr EXCEPT ![p].calls = @ + 1,
                                  ![p].ret = [op |-> "stop", err |-> "io",
                                              dir |-> None]]
            /\ UNCHANGED <<os, log_sender>>
       ELSE LET config == mgr[p].config
                log_dir == IF config = None THEN None
                           ELSE Some(config[1].log_dir)
                saved == IF config = None THEN os.files
                         ELSE save_to_file([log |-> LogOf(p),
                                            files |-> os.files,
                                            dirs |-> os.dirs,
                                            clock |-> os.clock],
                                           config[1].log_dir).files
                files == IF config = None
                         THEN saved
                         ELSE WriteFile(saved, MetadataFile(config[1].log_dir),
                                        config[1])
            IN  /\ os' = [os EXCEPT !.files = files, !.pid_file = None]
                /\ mgr' = [mgr EXCEPT ![p].calls = @ + 1,
                                      ![p].config = None,
                                      ![p].ret = [op |-> "stop", err |-> "",
                                                  dir |-> log_dir]]
                /\ log_sender' = IF p = "self" THEN FALSE ELSE log_sender
    /\ UNCHANGED <<pty, locks, retrying, parser, queue, received, command_log>>

\* a caller in the recording process hands an event to send_log_event
SendLogEvent(ev) ==
    /\ os.owner[SelfPid] = "user"
    /\ Len(received) + Len(queue) < MaxEvents
    /\ queue' = enqueue(queue, <<ev>>)
    /\ last' = [op |-> "send", pre |-> det, sent |-> <<ev>>]
    /\ UNCHANGED <<pty, locks, retrying, parser, log_sender, received, sessvars>>

\* the consumer task: the sender is dropped and the queue is drained, so
\* rx.recv() returns None and the task ends
ConsumerEnd ==
    /\ os.owner[SelfPid] = "user"
    /\ mgr["self"].consumer # None
    /\ ~log_sender /\ queue = <<>>
    /\ mgr["self"].pc = "idle"
    /\ mgr' = [mgr EXCEPT !["self"].consumer = None]
    /\ last' = NoCall
    /\ UNCHANGED <<pty, locks, retrying, parser, log_sender, queue, received, os, command_log>>

\* a recli process is killed: its pid marker, if it wrote one, stays behind
Crash(p) ==
    /\ os.owner[PidOf(p)] = "user"
    /\ os' = [os EXCEPT !.owner[PidOf(p)] = "none"]
    /\ last' = NoCall
    /\ UNCHANGED <<pty, locks, retrying, parser, log_sender, queue, received, mgr, command_log>>

\* a second passes
Second ==
    /\ os.clock < MaxClock
    /\ os' = [os EXCEPT !.clock = @ + 1]
    /\ last' = NoCall
    /\ UNCHANGED <<pty, locks, retrying, parser, log_sender, queue, received, mgr, command_log>>

\* runs of two recli processes that start and stop sessions
NextSession ==
    \/ \E p \in Procs : StartCheck(p)
    \/ \E p \in Procs : StartCreate(p)
    \/ \E p \in Procs : StartWrite(p)
    \/ \E p \in Procs : StopSession(p)
    \/ \E ev \in SessionEvents : SendLogEvent(ev)
    \/ Recv
    \/ ConsumerEnd
    \/ \E p \in Procs : Crash(p)
    \/ Second

SpecSession == InitSession /\ [][NextSession]_vars

\* ------------------------------------------------------ session properties
\* the process id the pid marker records, if it records one
MarkerPid(o) ==
    IF o.pid_file = None \/ read_to_string(o.pid_file[1]) = None THEN None
    ELSE parse_u32(trim(o.pid_file[1]))

\* the pid marker exists and the process it records exists
RecordedProcessExists(o) ==
    /\ MarkerPid(o) # None
    /\ MarkerPid(o)[1].hi = 0
    /\ MarkerPid(o)[1].lo \in DOMAIN o.owner
    /\ o.owner[MarkerPid(o)[1].lo] # "none"

\* the step is a call of start_session by p, up to its active-session check
StartCallBy(p) ==
    /\ mgr'[p].calls = mgr[p].calls + 1
    /\ mgr'[p].ret.op # "stop"

\* the step is a call of stop_session by p
StopCallBy(p) ==
    /\ mgr'[p].calls = mgr[p].calls + 1
    /\ mgr'[p].ret.op = "stop"

\* the start_session call of this step was refused and changed nothing
RefusedUnchanged(p) ==
    /\ mgr'[p].ret = [op |-> "start", err |-> "session already active",
                      dir |-> None]
    /\ mgr'[p].pc = "idle"
    /\ mgr'[p].config = mgr[p].config
    /\ mgr'[p].consumer = mgr[p].consumer
    /\ os' = os
    /\ log_sender' = log_sender
    /\ UNCHANGED <<queue, command_log>>

\* C15: a start_session called while the pid marker exists and the process
\* it records is alive returns the session-already-active error and changes
\* nothing: no pid marker written, no log directory created, no consumer
\* installed, config and sender as they were.
C15_StartRefusedWhenActive ==
    [][ \A p \in Procs :
            (StartCallBy(p) /\ RecordedProcessExists(os)) =>
                RefusedUnchanged(p) ]_vars

\* p has a session: its start_session succeeded, it has not stopped it, and
\* the process is running
HasSession(p) == mgr[p].config # None /\ os.owner[PidOf(p)] = "user"

\* C16: under every interleaving of the marker checks and marker writes of
\* two processes that run start_session, the two never have a session at
\* the same time.
C16_OneSessionAtATime == ~(HasSession("self") /\ HasSession("peer"))

\* C17: is_session_active is true exactly when the pid marker exists and the
\* process it records exists; with a marker of a dead process, or one that
\* records no process id, a start_session call passes the check and goes on
\* to replace the marker.
C17_ActiveIffProcessExists ==
    /\ [](is_session_active(os) <=> RecordedProcessExists(os))
    /\ [][ \A p \in Procs :
               (StartCallBy(p) /\ ~RecordedProcessExists(os)) =>
                   mgr'[p].pc = "create" ]_vars

\* C18: a stop_session called while a session is active saves the CommandLog
\* to commands.json, writes session_metadata.json with the config, removes
\* the pid marker and returns the log directory, and the session is
\* inactive afterwards; called while no session is active it returns none
\* and changes nothing on disk or in the manager.
C18_StopSession ==
    [][ \A p \in Procs :
            StopCallBy(p) =>
                IF is_session_active(os)
                THEN /\ mgr[p].config # None
                     /\ LET config == mgr[p].config[1]
                        IN  /\ CommandsFile(config.log_dir) \in DOMAIN os'.files
                            /\ os'.files[CommandsFile(config.log_dir)] =
                                   Serialized(LogOf(p))
                            /\ MetadataFile(config.log_dir) \in DOMAIN os'.files
                            /\ os'.files[MetadataFile(config.log_dir)] = config
                            /\ mgr'[p].ret.dir = Some(config.log_dir)
                     /\ os'.pid_file = None
                     /\ ~is_session_active(os')
                ELSE /\ mgr'[p].ret.dir = None
                     /\ os' = os
                     /\ mgr'[p].config = mgr[p].config
                     /\ mgr'[p].consumer = mgr[p].consumer
                     /\ UNCHANGED <<log_sender, queue, command_log>> ]_vars

\* the step is a call of send_log_event
SendCall == last'.op = "send" /\ received' = received

\* C19: send_log_event returns at once whatever the consumer has or has not
\* taken: with a sender installed the event is appended to the queue behind
\* the events still waiting; with no sender (before start_session, after
\* stop_session) the event is dropped, and the queue, the CommandLog, the
\* files and the manager stay as they were.
C19_SendNeverBlocksOrDrops ==
    [][ SendCall =>
            /\ queue' = IF log_sender THEN Append(queue, last'.sent[1])
                        ELSE queue
            /\ UNCHANGED <<command_log, os, mgr, log_sender>> ]_vars

\* the session was started and stopped again, the consumer has ended, and
\* an event sent after that left nothing in the queue
C19_Witness ==
    /\ last.op = "send"
    /\ mgr["self"].started /\ ~log_sender
    /\ mgr["self"].consumer = None
    /\ queue = <<>>
    /\ Len(received) = 1

\* ------------------------------------------------ the consumer and the log
\* "RECLI_START:" with an empty command line, as zsh's preexec passes it
\* when the history mechanism is off
StartEmpty == Frame(RECLI_START, LF)

\* what the child writes in the runs about the log
LogItems == { StartC, StartEmpty, <<97>>, End0, PwdP }

\* runs in which every chunk is one item and the consumer task applies the
\* events to the CommandLog
NextLog ==
    \/ \E item \in LogItems : Write(item)
    \/ (wire # <<>> /\ ProcessOutput(Len(wire)))
    \/ ReaderEof
    \/ Recv

SpecLog == Init /\ [][NextLog]_vars

\* the step is the consumer handling a CommandEnd
ConsumedEnd ==
    /\ Len(received') = Len(received) + 1
    /\ Head(queue).type = "CommandEnd"

\* the log directory of the recording process's session
SelfLogDir == mgr["self"].consumer[1].log_dir

\* C20: when the consumer has handled a CommandEnd, the in-memory entry
\* list has grown by exactly one entry, which carries that CommandEnd's exit
\* code and cwd, and the entry list in commands.json equals the in-memory
\* entry list.
C20_EntryPerCommandEnd ==
    [][ ConsumedEnd =>
            /\ Len(command_log'.entries) = Len(command_log.entries) + 1
            /\ SubSeq(command_log'.entries, 1, Len(command_log.entries)) =
                   command_log.entries
            /\ LET e == command_log'.entries[Len(command_log'.entries)]
               IN  /\ e.exit_code = Head(queue).exit_code
                   /\ e.cwd = Head(queue).cwd
            /\ CommandsFile(SelfLogDir) \in DOMAIN os'.files
            /\ Deserialized(os'.files[CommandsFile(SelfLogDir)]).entries =
                   command_log'.entries ]_vars

\* ---------------------------------------------------------------- teardown
\* run()'s hand-off to the session manager after its finish() call
stop_session_async == torn /\ StopSession("self")

\* runs of one recording session up to and past teardown: the child writes,
\* the reader reads, run() finishes the parser and stops the session while
\* the consumer task takes what is queued
NextTeardown ==
    \/ \E item \in LogItems : Write(item)
    \/ (wire # <<>> /\ ProcessOutput(Len(wire)))
    \/ ReaderEof
    \/ TeardownFinish
    \/ stop_session_async
    \/ Recv
    \/ ConsumerEnd

SpecTeardown == Init /\ [][NextTeardown]_vars

IsPrefix(s, t) == Len(s) <= Len(t) /\ SubSeq(t, 1, Len(s)) = s

\* the CommandLog after the consumer has applied the events evs, in order,
\* to the log c
RECURSIVE ApplyAll(_, _, _)
ApplyAll(c, evs, log_dir) ==
    IF evs = <<>> THEN c
    ELSE ApplyAll(handle_event(c, Head(evs), log_dir), Tail(evs), log_dir)

\* how many CommandEnd events evs holds
RECURSIVE NumEnds(_)
NumEnds(evs) ==
    IF evs = <<>> THEN 0
    ELSE (IF Head(evs).type = "CommandEnd" THEN 1 ELSE 0) + NumEnds(Tail(evs))

\* the entry list in the commands.json of the session started at time 0
PersistedEntries ==
    IF CommandsFile(0) \in DOMAIN os.files
    THEN Deserialized(os.files[CommandsFile(0)]).entries ELSE <<>>

\* the consumer task has seen rx.recv() return None
ConsumerClosed == mgr["self"].consumer = None

\* everything the parser sent while the sender was installed is, in order,
\* what the consumer has applied followed by what still waits
QueueKeepsAll ==
    /\ [](log_sender => received \o queue = hist.events)
    /\ [][IsPrefix(received \o queue, received' \o queue')]_vars

\* the CommandLog is the result of applying the taken events in order
AppliedInOrder ==
    command_log = ApplyAll([log |-> NewCommandLog, files |-> <<>>,
                            dirs |-> {0}, clock |-> 0], received, 0).log

\* the consumer observes closure only on an empty queue
ClosureAfterDrain == ConsumerClosed => queue = <<>>

\* every CommandEnd taken by the consumer has its entry in commands.json
\* once the consumer has observed closure
EndsPersisted ==
    ConsumerClosed => Len(PersistedEntries) = NumEnds(received)

\* C21: every event enqueued before stop_session closes the sender is
\* applied by the consumer to the CommandLog, in FIFO order, before the
\* consumer observes closure, and the CommandEnd that finish() synthesizes
\* for a trailing open command is then in the persisted commands.json.
C21_DrainBeforeClosure ==
    /\ QueueKeepsAll
    /\ [](AppliedInOrder /\ ClosureAfterDrain)
    /\ [](EndsPersisted)

\* ------------------------------------------------------------------- run()
\* everything but the PtySession and the record of the last call
rest == <<det, log_sender, queue, received, wire, items, reading,
          reader_done, torn, hist, mgr, os, command_log, locks, retrying>>

\* a step of run() that takes the PtySession to q
RunStep(q) == pty' = q /\ last' = NoCall /\ UNCHANGED rest

\* run(), lines 47-106: the pty pair is opened and the shell spawned in it,
\* or one of the two fails and run() returns the error
RunSpawn ==
    /\ pty.pc = "start"
    /\ \/ RunStep([pty EXCEPT !.pc = "raw", !.child = "alive"])
       \/ RunStep([pty EXCEPT !.pc = "returned", !.result = "err"])

\* run(), line 114: enable_raw_mode()?
RunEnableRaw ==
    /\ pty.pc = "raw"
    /\ \/ RunStep([pty EXCEPT !.pc = "reader_handle", !.raw = TRUE,
                              !.was_raw = TRUE])
       \/ RunStep([pty EXCEPT !.pc = "returned", !.result = "err"])

\* run(), lines 117-120: try_clone_reader()?
RunCloneReader ==
    /\ pty.pc = "reader_handle"
    /\ \/ RunStep([pty EXCEPT !.pc = "writer_handle"])
       \/ RunStep([pty EXCEPT !.pc = "returned", !.result = "err"])

\* run(), lines 121-124: take_writer()?, and on success lines 128-208: the
\* forwarder thread, the reader task and the SIGTERM listener are spawned
\* and input_loop is entered
RunTakeWriter ==
    /\ pty.pc = "writer_handle"
    /\ \/ RunStep([pty EXCEPT !.pc = "loop", !.forwarder = "running"])
       \/ RunStep([pty EXCEPT !.pc = "returned", !.result = "err"])

\* the shell exits
ChildExit ==
    /\ pty.child = "alive"
    /\ RunStep([pty EXCEPT !.child = "exited"])

\* lines 198-208: SIGTERM arrives and the listener sets the flag
Sigterm ==
    /\ pty.pc = "loop" /\ ~pty.terminated
    /\ RunStep([pty EXCEPT !.terminated = TRUE])

\* lines 130-140: the forwarder's stdin.read returns Ok(0) or an error and
\* the thread leaves its loop
ForwarderEnd ==
    /\ pty.forwarder = "running"
    /\ \E how \in {"ended", "failed"} :
           RunStep([pty EXCEPT !.forwarder = how])

\* lines 176-194: the reader's read fails, or forward_to_stdout fails on a
\* broken sink, and the task leaves its loop without a finish()
ReaderError ==
    /\ pty.forwarder # "none" /\ ~reader_done
    /\ reader_done' = TRUE
    /\ pty' = [pty EXCEPT !.reader_err = TRUE]
    /\ last' = NoCall
    /\ UNCHANGED <<det, log_sender, queue, received, wire, items, reading,
                   torn, hist, mgr, os, command_log, locks, retrying>>

\* input_loop, lines 245-255: the termination flag is set or the child has
\* exited, and the loop breaks
LoopBreak ==
    /\ pty.pc = "loop"
    /\ pty.terminated \/ pty.child = "exited"
    /\ RunStep([pty EXCEPT !.pc = "cleanup", !.result = "ok"])

\* input_loop, lines 258-280: event::poll, event::read or the resize fails
\* and input_loop returns the error to run()
LoopError ==
    /\ pty.pc = "loop"
    /\ ~pty.terminated /\ pty.child = "alive"
    /\ RunStep([pty EXCEPT !.pc = "cleanup", !.result = "err"])

\* run(), line 216: disable_raw_mode()?
RunDisableRaw ==
    /\ pty.pc = "cleanup"
    /\ \/ RunStep([pty EXCEPT !.pc = "finish", !.raw = FALSE])
       \/ RunStep([pty EXCEPT !.pc = "returned", !.result = "err"])

\* run(), lines 217-222: finish() on the shared detector
RunFinish == pty.pc = "finish" /\ TeardownFinish

\* run(), line 223: output_task.abort(); the reader task is marked
\* cancelled, which takes effect at an await and the reader's loop has none
RunAbort ==
    /\ pty.pc = "finish" /\ torn /\ ~pty.aborted
    /\ RunStep([pty EXCEPT !.aborted = TRUE])

\* run(), lines 225-232: the session is stopped
RunStop ==
    /\ pty.pc = "finish" /\ pty.aborted /\ mgr["self"].ret.op # "stop"
    /\ stop_session_async

\* run(), lines 234-235: run() returns input_loop's result
RunReturn ==
    /\ pty.pc = "finish" /\ torn /\ mgr["self"].ret.op = "stop"
    /\ RunStep([pty EXCEPT !.pc = "returned"])

\* what the child writes in the runs of run()
RunItems == { StartC, <<97>> }

\* the state before run() is called: start_session has succeeded
InitRun ==
    /\ det = NewDetector
    /\ log_sender = TRUE
    /\ queue = <<>>
    /\ received = <<>>
    /\ wire = <<>>
    /\ items = 0
    /\ reading = FALSE
    /\ reader_done = FALSE
    /\ torn = FALSE
    /\ hist = NoHistory
    /\ last = NoCall
    /\ mgr = [p \in Procs |-> IF p = "self" THEN StartedManager(0) ELSE NewManager]
    /\ os = StartedSystem
    /\ command_log = NewCommandLog
    /\ pty = NewPty
    /\ locks = NoLocks
    /\ retrying = NoRetry

\* the reader task and the child at work, once they exist
RunReader ==
    /\ pty.forwarder # "none"
    /\ \/ \E item \in RunItems : pty.child = "alive" /\ Write(item)
       \/ (wire # <<>> /\ ProcessOutput(Len(wire)))
       \/ (pty.child = "exited" /\ ReaderEof)

\* the steps run() takes by itself once they are enabled
RunForward ==
    \/ LoopBreak
    \/ RunDisableRaw
    \/ RunFinish
    \/ RunAbort
    \/ RunStop
    \/ RunReturn

\* runs of one call of run()
NextRun ==
    \/ RunSpawn
    \/ RunEnableRaw
    \/ RunCloneReader
    \/ RunTakeWriter
    \/ ChildExit
    \/ Sigterm
    \/ ForwarderEnd
    \/ ReaderError
    \/ LoopError
    \/ RunForward
    \/ RunReader
    \/ Recv
    \/ ConsumerEnd

SpecRun == InitRun /\ [][NextRun]_vars

\* run() with its scheduling: the polling loop wakes every 50 ms and the
\* cleanup runs straight through; nothing makes the child exit, a signal
\* arrive or a call fail
SpecRunFair == SpecRun /\ WF_vars(RunForward)

\* C22: whenever run() has returned after raw mode was enabled, raw mode has
\* been disabled.
C22_RawModeRestored ==
    (pty.pc = "returned" /\ pty.was_raw) => ~pty.raw

\* the session's state: 0 NOT_STARTED, 1 RUNNING, 2 STOPPING, 3 STOPPED
SessionState ==
    IF pty.pc \in {"start", "raw", "reader_handle", "writer_handle"} THEN 0
    ELSE IF pty.pc = "loop" THEN 1
    ELSE IF pty.pc \in {"cleanup", "finish"} THEN 2
    ELSE 3

\* the session only moves forward
ForwardOnly == [][SessionState' >= SessionState]_vars

ChildExitStops ==
    (SessionState = 1 /\ pty.child = "exited") ~> (SessionState >= 2)
SigtermStops ==
    (SessionState = 1 /\ pty.terminated) ~> (SessionState >= 2)
ForwarderErrorStops ==
    (SessionState = 1 /\ pty.forwarder = "failed") ~> (SessionState >= 2)
ReaderErrorStops ==
    (SessionState = 1 /\ pty.reader_err) ~> (SessionState >= 2)
CleanupCompletes == (SessionState = 2) ~> (SessionState = 3)

\* C23: the session moves only forward through NOT_STARTED, RUNNING,
\* STOPPING, STOPPED; from RUNNING a child exit, a termination signal and an
\* unrecoverable error of the forwarder or of the reader each lead to
\* STOPPING, and from STOPPING the cleanup runs on to STOPPED.
C23_StateMachine ==
    /\ ForwardOnly
    /\ ChildExitStops
    /\ SigtermStops
    /\ ForwarderErrorStops
    /\ ReaderErrorStops
    /\ CleanupCompletes

\* ------------------------------------------------------- persistence fails
\* the log directory of the session can no longer be written: it is
\* read-only, or the disk is full
DiskFails ==
    /\ mgr["self"].consumer # None
    /\ SelfLogDir \in os.dirs
    /\ os' = [os EXCEPT !.dirs = @ \ {SelfLogDir}]
    /\ last' = NoCall
    /\ UNCHANGED <<det, log_sender, queue, received, wire, items, reading,
                   reader_done, torn, hist, mgr, command_log, pty, locks, retrying>>

\* runs of a recording session whose log directory fails at some point
NextDisk ==
    \/ \E item \in LogItems : Write(item)
    \/ (wire # <<>> /\ ProcessOutput(Len(wire)))
    \/ ReaderEof
    \/ Recv
    \/ DiskFails
    \/ Sigterm
    \/ ForwarderEnd

SpecDisk == Init /\ [][NextDisk]_vars

\* the step is the consumer handling a CommandEnd whose save fails
FailedSave == ConsumedEnd /\ SelfLogDir \notin os.dirs

\* the log that the same CommandEnd leaves when the save succeeds
LogHadSaveSucceeded ==
    handle_event([log |-> command_log, files |-> os.files,
                  dirs |-> os.dirs \cup {SelfLogDir}, clock |-> os.clock],
                 Head(queue), SelfLogDir).log

\* C24: a save that fails while the consumer handles a CommandEnd changes
\* nothing but the consumer's own progress: the in-memory log is the one a
\* successful save leaves, with the finished entry at its end; the consumer
\* task stays and takes whatever is queued next; the reader, the forwarder
\* and the polling loop are where they were.
C24_SaveFailureContained ==
    /\ [][ FailedSave =>
             /\ command_log' = LogHadSaveSucceeded
             /\ (command_log.current_cmd # <<>> =>
                    /\ Len(command_log'.entries) = Len(command_log.entries) + 1
                    /\ command_log'.entries[Len(command_log'.entries)].cmd =
                           command_log.current_cmd
                    /\ command_log'.entries[Len(command_log'.entries)].exit_code =
                           Head(queue).exit_code)
             /\ queue' = Tail(queue)
             /\ mgr'["self"].consumer = mgr["self"].consumer
             /\ UNCHANGED <<pty, locks, retrying, reader_done, reading, det,
                            wire, log_sender, torn>> ]_vars
    /\ [](mgr["self"].consumer # None /\ queue # <<>> => ENABLED Recv)

\* a save has failed, its entry is in memory but not on disk, and the
\* consumer has applied the CommandStart that came after it
C24_Witness ==
    /\ SelfLogDir \notin os.dirs
    /\ Len(command_log.entries) > Len(PersistedEntries)
    /\ received # <<>>
    /\ received[Len(received)].type = "CommandStart"
    /\ command_log.current_cmd = received[Len(received)].cmd
    /\ command_log.current_cmd # <<>>
    /\ pty = RunningPty /\ ~reader_done

\* -------------------------------------------------- the CommandLog by itself
\* how many operations that change the log a run makes
MaxOps == 4
\* the largest count handed to get_recent
MaxCount == 3

\* the command lines handed to start_command
LogCmds == { <<99>>, <<>> }

\* the output handed to append_output_bytes: text that fills the preview but
\* for one byte, the two bytes of U+00E9, a byte that is no UTF-8
LogChunks ==
    { [i \in 1..(PreviewCap - 1) |-> 97], <<195, 169>>, <<255>> }

\* the log with the files, the directories and the time it works on
CLState ==
    [log |-> command_log, files |-> os.files, dirs |-> os.dirs,
     clock |-> os.clock]

\* how many operations have changed the log
OpsDone == IF "n" \in DOMAIN last THEN last.n ELSE 0

\* an operation that leaves the log and the files as in c
CLChange(c, op, arg) ==
    /\ OpsDone < MaxOps
    /\ command_log' = c.log
    /\ os' = [os EXCEPT !.files = c.files]
    /\ last' = [op |-> op, pre |-> arg, sent |-> <<>>, n |-> OpsDone + 1]
    /\ UNCHANGED <<det, log_sender, queue, received, wire, items, reading,
                   reader_done, torn, hist, mgr, pty, locks, retrying>>

\* an operation that only returns result
CLQuery(op, arg, result) ==
    /\ last' = [op |-> op, pre |-> arg, sent |-> result, n |-> OpsDone]
    /\ UNCHANGED <<det, log_sender, queue, received, wire, items, reading,
                   reader_done, torn, hist, mgr, pty, locks, retrying, os, command_log>>

CLStart(cmd) ==
    CLChange(log_start_command(CLState, cmd, ProcessCwd, 0), "start_command", cmd)
CLAppend(bytes) ==
    CLChange(append_output_bytes(CLState, bytes), "append_output_bytes", bytes)
CLFinish(exit_code) ==
    CLChange(finish_command(CLState, exit_code, None, ProcessCwd, 0),
             "finish_command", exit_code)
CLSave == CLChange(save_to_file(CLState, 0), "save_to_file", 0)
CLLoad == CLQuery("load_from_file", 0, load_from_file(CLState, 0))
CLGetRecent(count) ==
    CLQuery("get_recent", count, get_recent(command_log, count))

\* any sequence of the operations of a CommandLog on the log directory 0
NextCL ==
    \/ \E cmd \in LogCmds : CLStart(cmd)
    \/ \E bytes \in LogChunks : CLAppend(bytes)
    \/ \E exit_code \in {0, 1} : CLFinish(exit_code)
    \/ CLSave
    \/ CLLoad
    \/ \E count \in 0..MaxCount : CLGetRecent(count)

SpecCL == Init /\ [][NextCL]_vars

\* C25: the current preview and the output_preview of every finished entry
\* are at most 8192 bytes long.
C25_PreviewCapped ==
    /\ Len(command_log.current_preview) <= PreviewCap
    /\ \A k \in 1..Len(command_log.entries) :
           Len(command_log.entries[k].output_preview) <= PreviewCap

\* the step is a call of the operation op
CallOf(op) == last'.op = op /\ last'.n = OpsDone + 1

\* a command is open: start_command has opened its spool file
SpoolOpen == command_log.current_out_file # None

\* the entry the step has appended
NewEntry == command_log'.entries[Len(command_log'.entries)]

\* an append between start_command and finish_command writes its bytes to
\* the end of the spool file
AppendSpools ==
    (CallOf("append_output_bytes") /\ SpoolOpen) =>
        /\ command_log.current_out_file[1] = SpoolFile(0)
        /\ os'.files[SpoolFile(0)] = os.files[SpoolFile(0)] \o last'.pre

\* finish_command renames the spool file, with all that was written to it,
\* to <timestamp>-<seq>.out, records that name and leaves no spool file
FinishRenames ==
    (CallOf("finish_command") /\ SpoolOpen) =>
        LET final == OutFile(0, os.clock, Len(command_log.entries))
        IN  /\ Len(command_log'.entries) = Len(command_log.entries) + 1
            /\ NewEntry.output_path = Some(final)
            /\ final \in DOMAIN os'.files
            /\ os'.files[final] = os.files[SpoolFile(0)]
            /\ SpoolFile(0) \notin DOMAIN os'.files
            /\ command_log'.current_out_file = None

\* C26: between start_command and finish_command every byte handed to
\* append_output_bytes is written to the command's spool file, in order and
\* whatever the preview holds, and finish_command renames that file to a
\* <timestamp>-<seq>.out name that it records as the entry's output_path,
\* leaving no spool file behind.
C26_FullOutputSpools ==
    [][ /\ (CallOf("start_command") =>
                /\ command_log'.current_out_file = Some(SpoolFile(0))
                /\ os'.files[SpoolFile(0)] = <<>>)
        /\ AppendSpools
        /\ FinishRenames ]_vars

\* C27: start_command and append_output_bytes leave the entries as they are;
\* finish_command changes them at most by one entry appended at the end; so
\* after any sequence of the three every earlier entry is where it was,
\* unchanged.
C27_EntriesAppendOnly ==
    [][ /\ (CallOf("start_command") \/ CallOf("append_output_bytes")) =>
               command_log'.entries = command_log.entries
        /\ CallOf("finish_command") =>
               /\ IsPrefix(command_log.entries, command_log'.entries)
               /\ Len(command_log'.entries) <= Len(command_log.entries) + 1
               /\ (command_log.current_cmd # <<>> =>
                       Len(command_log'.entries) = Len(command_log.entries) + 1)
        /\ \A k \in 1..Len(command_log.entries) :
               /\ k <= Len(command_log'.entries)
               /\ command_log'.entries[k] = command_log.entries[k] ]_vars

\* a second command has been started and has output after a first one was
\* finished, whose entry is still the first
C27_Witness ==
    /\ last.op = "append_output_bytes"
    /\ Len(command_log.entries) = 1
    /\ command_log.entries[1].cmd = <<99>>
    /\ command_log.current_cmd = <<99>>
    /\ command_log.current_preview # <<>>

\* the step is a load_from_file right after a save_to_file
LoadAfterSave == last.op = "save_to_file" /\ last'.op = "load_from_file"

\* C28: load_from_file after save_to_file on the same directory returns a
\* log with the saved entries, in order and field by field, and with empty
\* accumulation fields, also when a command was open at the save; the
\* document holds the entries and nothing else.
C28_SaveLoadRoundTrip ==
    [][ LoadAfterSave =>
            /\ last'.sent.entries = command_log.entries
            /\ last'.sent.current_cmd = <<>>
            /\ last'.sent.current_preview = <<>>
            /\ last'.sent.current_start_time = None
            /\ last'.sent.current_out_file = None
            /\ DOMAIN os.files[CommandsFile(0)] = {"entries"} ]_vars

\* a log with one entry and an open command was saved and loaded
C28_Witness ==
    /\ last.op = "load_from_file"
    /\ Len(last.sent.entries) = 1
    /\ last.sent.entries = command_log.entries
    /\ command_log.entries[1].output_path # None
    /\ command_log.entries[1].pipestatus = None
    /\ command_log.current_cmd # <<>>
    /\ command_log.current_start_time # None
    /\ command_log.current_out_file # None
    /\ Deserialized(os.files[CommandsFile(0)]).entries = command_log.entries

\* C29: get_recent(n) returns the last min(n, len) entries in their order.
C29_GetRecent ==
    [][ last'.op = "get_recent" =>
            LET n == last'.pre
                len == Len(command_log.entries)
                m == IF n < len THEN n ELSE len
            IN  /\ Len(last'.sent) = m
                /\ \A k \in 1..m :
                       last'.sent[k] = command_log.entries[len - m + k] ]_vars

\* get_recent(1) on a log of two different entries
C29_Witness ==
    /\ last.op = "get_recent" /\ last.pre = 1
    /\ Len(command_log.entries) = 2
    /\ command_log.entries[1] # command_log.entries[2]
    /\ last.sent = <<command_log.entries[2]>>

\* ------------------------------------------------- the order of the events
\* hist.epoch[k] is the number of CommandStart and CommandEnd events sent
\* when the k-th display byte was scanned: the events of the markers that
\* precede it in the stream.

\* the indices of the display bytes that went into an Output event
LoggedShown ==
    SelectSeq([k \in 1..Len(hist.shown) |-> k],
              LAMBDA k : hist.shown[k] \in hist.logged)

\* the indices of the Output events among the events sent
OutputEvents ==
    SelectSeq([k \in 1..Len(hist.events) |-> k],
              LAMBDA k : hist.events[k].type = "Output")

\* the Output event, from the r-th on, that holds the j-th byte of theirs
RECURSIVE OutputHolding(_, _)
OutputHolding(j, r) ==
    IF r > Len(OutputEvents) THEN 0
    ELSE IF j <= Len(hist.events[OutputEvents[r]].data) THEN OutputEvents[r]
    ELSE OutputHolding(j - Len(hist.events[OutputEvents[r]].data), r + 1)

\* the index among the events of the Output that holds display byte k
OutputOf(k) ==
    LET at == {j \in 1..Len(LoggedShown) : LoggedShown[j] = k}
    IN  IF at = {} THEN 0 ELSE OutputHolding(CHOOSE j \in at : TRUE, 1)

\* the display bytes scanned while a command was open
InCommandShown == {k \in 1..Len(hist.shown) : hist.shown[k] \notin hist.idle}

\* display byte k is in an Output event
Logged(k) == OutputOf(k) # 0

\* the Output of display byte k was sent after the events of the markers
\* before the byte and before the events of the markers after it
InOrder(k) ==
    NumLifecycle(SubSeq(hist.events, 1, OutputOf(k))) = hist.epoch[k]

\* C30: every display byte that lies between a command's START marker and
\* its END/PWD markers is in an Output event, and that event is sent after
\* the events of the markers before the byte and before the events of the
\* markers after it, whatever the chunks are.
C30_EventsInStreamOrder ==
    \A k \in InCommandShown : Logged(k) /\ InOrder(k)

\* ------------------------------------------------- the echo-skip window
\* The parser's view of the stream: a carryover that finish() discarded is
\* gone, the bytes after it are scanned afresh.
KeptPos ==
    SelectSeq([p \in 1..Len(hist.fed) |-> p], LAMBDA p : p \notin hist.dropped)

\* One pass over the stream s, whose k-th byte is position kp[k] of the fed
\* bytes, from index i.  a.tok: index i - 1 lies in a marker's token, which
\* began at a.st; a.open: a RECLI_START has been closed and no byte outside
\* markers has passed since; a.ok: every dropped byte so far was dropped
\* while a.open held and is no line ending.
RECURSIVE WalkWindow(_, _, _, _)
WalkWindow(s, kp, i, a) ==
    IF i > Len(s) THEN a
    ELSE IF a.tok /\ (s[i] = LF \/ s[i] = CR)
    THEN WalkWindow(s, kp, i + 1,
             [a EXCEPT !.tok = FALSE,
                       !.open = IF strip_prefix(SubSeq(s, a.st + 1, i - 1),
                                                RECLI_START) # None
                                THEN TRUE ELSE @])
    ELSE IF a.tok THEN WalkWindow(s, kp, i + 1, a)
    ELSE IF s[i] = RS
    THEN WalkWindow(s, kp, i + 1, [a EXCEPT !.tok = TRUE, !.st = i])
    ELSE IF kp[i] \in hist.skipped
    THEN WalkWindow(s, kp, i + 1,
             [a EXCEPT !.ok = @ /\ a.open /\ s[i] # LF /\ s[i] # CR])
    ELSE WalkWindow(s, kp, i + 1, [a EXCEPT !.open = FALSE])

\* the pass over all the parser has seen
Window ==
    LET kp == KeptPos
    IN  WalkWindow([k \in 1..Len(kp) |-> hist.fed[kp[k]]], kp, 1,
                   [tok |-> FALSE, st |-> 0, open |-> FALSE, ok |-> TRUE])

\* the command is closed, its CommandEnd the last event
ClosedByMarkers ==
    /\ ~det.in_command
    /\ hist.events # <<>>
    /\ hist.events[Len(hist.events)].type = "CommandEnd"

\* C31: after a RECLI_START the parser drops bytes outside markers only
\* until the first line ending or until the grace window has run out:
\* every dropped byte follows a RECLI_START with no byte passed and no
\* line ending in between, none is dropped once the clock shows the grace
\* window, so after the window nothing is dropped before the next
\* RECLI_START; a well-formed RECLI_END and a RECLI_PWD that arrive inside
\* the window still close the command.
C31_EchoSkipWindow ==
    /\ hist.late = {}
    /\ hist.skipped # {} => Window.ok
    /\ (hist.end_ok /\ hist.pwd_seen /\ Window.open) => ClosedByMarkers

\* a byte dropped in the window, the window run out, the next byte passed
\* with no line ending seen
C31_Witness ==
    /\ hist.fed = StartC \o <<97, 97>>
    /\ hist.ticked
    /\ hist.skipped = {Len(StartC) + 1}
    /\ hist.display = <<97>>

\* ----------------------------------------------------- the teardown's steps
\* run() has entered input_loop: the session ran
SessionRan == pty.forwarder # "none"

\* the Session Manager's stop_session has been called by run()
Stopped == mgr["self"].ret.op = "stop"

\* no step of the teardown is taken before the one ahead of it
StepsInOrder ==
    /\ torn => ~pty.raw
    /\ pty.aborted => torn
    /\ Stopped => pty.aborted

\* when run() has returned, all four steps are done
AllStepsDone ==
    pty.pc = "returned" => (~pty.raw /\ torn /\ pty.aborted /\ Stopped)

\* C32: whatever ends the session, run() restores the terminal mode, then
\* calls finish(), then cancels the reader task, then calls stop_session:
\* no step is taken before the one ahead of it, the reader is not cancelled
\* before finish() has returned, and when run() has returned all four are
\* done.
C32_TeardownSequence == SessionRan => (StepsInOrder /\ AllStepsDone)

\* ------------------------------------------------- the end of the reader
\* the reader task leaves its loop in this step
ReaderLeaves == ~reader_done /\ reader_done'

\* the step is a call of finish() that sends the CommandEnd of the command
\* left open
FinishCalled ==
    /\ last'.op = "finish"
    /\ ~det'.in_command
    /\ det.in_command =>
           /\ Len(queue') = Len(queue) + 1
           /\ queue'[Len(queue')].type = "CommandEnd"

\* C33: whenever the reader task leaves its loop, at end-of-stream, on a
\* read error or on a broken output sink, it calls finish() as it leaves,
\* so that a command open at that moment has its CommandEnd enqueued.
C33_ReaderFinishes == [][ReaderLeaves => FinishCalled]_vars

\* ------------------------------------------------------- locks and I/O
\* the step task t stands at
At(t) == Program(t)[locks.pc[t]]

\* the locks task t holds
HeldBy(t) == {l \in Locks : locks.held[l] = t}

\* everything the steps of the tasks leave alone
lockrest == <<det, received, wire, reading, reader_done, torn, hist, last,
              mgr, os, command_log, pty, retrying>>

\* a read or a write; a read of the pty that returns bytes is counted
DoIo(t) ==
    /\ locks.pc[t] # "done" /\ At(t).op = "io"
    /\ \E n \in At(t).next :
          /\ (At(t).arg = "pty" /\ n = "lock_p") => items < MaxFrames
          /\ items' = IF At(t).arg = "pty" /\ n = "lock_p"
                      THEN items + 1 ELSE items
          /\ locks' = [locks EXCEPT !.pc[t] = n]
    /\ UNCHANGED <<queue, log_sender, lockrest>>

\* Mutex::lock returns once the mutex is free
DoLock(t) ==
    /\ locks.pc[t] # "done" /\ At(t).op = "lock"
    /\ locks.held[At(t).arg] = "none"
    /\ \E n \in At(t).next :
          locks' = [locks EXCEPT !.pc[t] = n, !.held[At(t).arg] = t]
    /\ UNCHANGED <<queue, log_sender, items, lockrest>>

\* the guard is dropped
DoUnlock(t) ==
    /\ locks.pc[t] # "done" /\ At(t).op = "unlock"
    /\ \E n \in At(t).next :
          locks' = [locks EXCEPT !.pc[t] = n, !.held[At(t).arg] = "none"]
    /\ UNCHANGED <<queue, log_sender, items, lockrest>>

\* send_log_event
DoSend(t) ==
    /\ locks.pc[t] # "done" /\ At(t).op = "send"
    /\ queue' = enqueue(queue, <<Output(<<97>>)>>)
    /\ \E n \in At(t).next : locks' = [locks EXCEPT !.pc[t] = n]
    /\ UNCHANGED <<log_sender, items, lockrest>>

\* rx.recv().await: an event, or None once the sender is gone and the
\* channel is empty
DoRecv(t) ==
    /\ locks.pc[t] # "done" /\ At(t).op = "recv"
    /\ \/ /\ queue # <<>>
          /\ queue' = Tail(queue)
          /\ \E n \in At(t).next : locks' = [locks EXCEPT !.pc[t] = n]
       \/ /\ queue = <<>> /\ ~log_sender
          /\ queue' = queue
          /\ locks' = [locks EXCEPT !.pc[t] = "done"]
    /\ UNCHANGED <<log_sender, items, lockrest>>

\* self.log_sender = None
DoClose(t) ==
    /\ locks.pc[t] # "done" /\ At(t).op = "close"
    /\ log_sender' = FALSE
    /\ \E n \in At(t).next : locks' = [locks EXCEPT !.pc[t] = n]
    /\ UNCHANGED <<queue, items, lockrest>>

\* output_task.abort()
DoAbort(t) ==
    /\ locks.pc[t] # "done" /\ At(t).op = "abort"
    /\ \E n \in At(t).next : locks' = [locks EXCEPT !.pc[t] = n]
    /\ UNCHANGED <<queue, log_sender, items, lockrest>>

\* the three tasks of a running session, step by step
NextLocks ==
    \E t \in Tasks :
        \/ DoIo(t)
        \/ DoLock(t)
        \/ DoUnlock(t)
        \/ DoSend(t)
        \/ DoRecv(t)
        \/ DoClose(t)
        \/ DoAbort(t)

SpecLocks == Init /\ [][NextLocks]_vars

\* task t is about to read or write a device or a file
AtIo(t) == locks.pc[t] # "done" /\ At(t).op = "io"

\* C34: no task reads or writes a device or a file while it holds a lock:
\* not the reader task, not the consumer task, not the teardown path.
C34_NoIoUnderLock == \A t \in Tasks : AtIo(t) => HeldBy(t) = {}

\* the same of the reader task alone
ReaderIoUnlocked == AtIo("reader") => HeldBy("reader") = {}

\* ------------------------------------------------------ the hook's order
\* "RECLI_END:-1"
EndNeg == Frame(RECLI_END \o <<45, 49>>, LF)

\* What the zsh hook writes for one command: RECLI_START before it, then
\* RECLI_END, RECLI_PIPE and RECLI_PWD in this order, here with the output
\* "a" or nothing between them; code and pipe are what the markers carry.
HookStreams ==
    { [stream |-> StartC \o x1 \o e.frame \o x2 \o p.frame \o x3 \o PwdP,
       code |-> e.code, pipe |-> p.list] :
        x1 \in {<<>>, <<97>>}, x2 \in {<<>>, <<97>>}, x3 \in {<<>>, <<97>>},
        e \in {[frame |-> End0, code |-> 0], [frame |-> EndNeg, code |-> -1]},
        p \in {[frame |-> Pipe012, list |-> <<0, 1, 2>>],
               [frame |-> Pipe01, list |-> <<0, 1>>]} }

\* a fresh parser and the markers of one command on the wire
InitHook ==
    /\ det = NewDetector
    /\ log_sender = TRUE
    /\ queue = <<>>
    /\ received = <<>>
    /\ wire \in {h.stream : h \in HookStreams}
    /\ items = 1
    /\ reading = FALSE
    /\ reader_done = FALSE
    /\ torn = FALSE
    /\ hist = NoHistory
    /\ last = NoCall
    /\ mgr = [p \in Procs |-> IF p = "self" THEN StartedManager(0) ELSE NewManager]
    /\ os = StartedSystem
    /\ command_log = NewCommandLog
    /\ pty = RunningPty
    /\ locks = NoLocks
    /\ retrying = NoRetry

\* the reader takes the stream in chunks that end at any byte offset
NextHook ==
    \/ \E n \in 1..Len(wire) : ProcessOutput(n)
    \/ Tick

SpecHook == InitHook /\ [][NextHook]_vars

\* the CommandEnd events sent so far
EndsSent == SelectSeq(hist.events, LAMBDA e : e.type = "CommandEnd")

\* C35: when the markers of one command arrive in the hook's order START,
\* END:n, PIPE:[...], PWD:p, in any chunks and with plain bytes between
\* them, no CommandEnd is sent before the PWD marker is complete and exactly
\* one is sent at it, with exit code n, that pipestatus and cwd p; after
\* it no command is open and no pending field is set.
C35_HookOrderFinalizes ==
    /\ wire # <<>> => EndsSent = <<>>
    /\ wire = <<>> =>
           /\ \E h \in HookStreams :
                  /\ hist.fed = h.stream
                  /\ EndsSent = <<CommandEnd(h.code, Some(h.pipe), <<47, 112>>)>>
           /\ ~det.in_command
           /\ det.pending_exit_code = None
           /\ det.pending_pipestatus = None
           /\ det.pending_pwd = None

\* exit code -1 and pipestatus [0,1], output between the markers, the
\* stream taken in more than three chunks
C35_Witness ==
    /\ wire = <<>>
    /\ hist.fed = StartC \o <<97>> \o EndNeg \o <<97>> \o Pipe01 \o <<97>> \o PwdP
    /\ EndsSent = <<CommandEnd(-1, Some(<<0, 1>>), <<47, 112>>)>>
    /\ Len(hist.events) > 3

\* ------------------------------------------------ the stop of another process
\* p has started a session and not stopped it, p is alive and the pid
\* marker names it
SessionRunning(p) ==
    /\ mgr[p].config # None
    /\ os.owner[PidOf(p)] = "user"
    /\ os.pid_file = Some(to_string(PidOf(p)))

\* the step is a call of stop_session on the SessionManager of q
StopBy(q) == mgr[q].calls' = mgr[q].calls + 1 /\ mgr'[q].ret.op = "stop"

\* commands.json and session_metadata.json of the session of p are on disk
\* after the step
SessionSaved(p) ==
    /\ CommandsFile(mgr[p].config[1].log_dir) \in DOMAIN os'.files
    /\ MetadataFile(mgr[p].config[1].log_dir) \in DOMAIN os'.files

\* C36: the pid marker of a running session stays until the session's own
\* stop_session removes it: a stop_session called on the SessionManager of
\* another process leaves it in place, and the stop_session of the process
\* that started the session, whenever it comes, saves the log and the
\* metadata.
C36_MarkerOwnedBySession ==
    [][ \A p \in Procs :
          /\ SessionRunning(p) =>
                 \A q \in Procs \ {p} : StopBy(q) => os'.pid_file = os.pid_file
          /\ (mgr[p].config # None /\ os.owner[PidOf(p)] = "user" /\ StopBy(p))
                 => SessionSaved(p) ]_vars

\* the session's own stop_session saves when the marker is still its own
OwnStopSaves ==
    [][ \A p \in Procs : (SessionRunning(p) /\ StopBy(p)) => SessionSaved(p) ]_vars

\* ------------------------------------------------------------ lock order
\* the place of a lock in the order parser, session manager, CommandLog
Rank(l) == IF l = "parser" THEN 1 ELSE IF l = "manager" THEN 2 ELSE 3

\* task t is about to take a lock
AtLock(t) == locks.pc[t] # "done" /\ At(t).op = "lock"

\* task t waits for a lock that is held
Blocked(t) == AtLock(t) /\ locks.held[At(t).arg] # "none"

\* a task that takes a lock holds only locks that come before it in the
\* order
LockOrder ==
    \A t \in Tasks :
        AtLock(t) => \A h \in HeldBy(t) : Rank(h) < Rank(At(t).arg)

\* task t can take its next step, or waits for a lock whose holder, within
\* n more tasks, can
RECURSIVE Proceeds(_, _)
Proceeds(t, n) ==
    IF ~Blocked(t)
    THEN locks.pc[t] # "done" /\ At(t).op # "recv"
    ELSE /\ n > 0
         /\ locks.held[At(t).arg] # t
         /\ Proceeds(locks.held[At(t).arg], n - 1)

\* C37: the reader task, the teardown path and the consumer task never
\* deadlock: a task that takes a lock holds only locks that come before it
\* in the order parser lock, session-manager lock, CommandLog lock, and
\* every task that waits for a lock waits for a task that can go on.
C37_NoDeadlock ==
    /\ LockOrder
    /\ \A t \in Tasks : Blocked(t) => Proceeds(t, Cardinality(Tasks) - 1)

\* the reader holds the parser lock and waits for the manager's, which the
\* teardown path holds while it waits for the CommandLog's, which the
\* consumer holds
C37_Witness ==
    /\ locks.held = [parser |-> "reader", manager |-> "teardown",
                     log |-> "consumer"]
    /\ Blocked("reader") /\ Blocked("teardown")

\* ------------------------------------------------- the reader after finish()
\* C38: once the teardown has called finish(), and until stop_session has
\* completed, the reader task sends no further event and the parser has no
\* open command, in every interleaving of the two, also when the child
\* still writes output because a termination signal ended the session.
C38_QuietAfterFinish ==
    [][ (torn /\ ~Stopped) =>
            /\ hist'.events = hist.events
            /\ ~det'.in_command ]_vars

\* ------------------------------------------------- an unparsable RECLI_END
\* the reader passes the frame f, which is all that is on the wire, to the
\* parser
Reads(f) == wire = f /\ wire' = <<>>

\* C39: a RECLI_END whose payload is no signed decimal sets the pending
\* exit code to none, whatever an earlier RECLI_END of the command stored,
\* and sends no event; a RECLI_PWD that follows it with no RECLI_END in
\* between sends no CommandEnd and leaves the command open; the frame is
\* consumed and parsing goes on.
C39_BadEndErasesCode ==
    [][ /\ Reads(EndX) =>
               /\ det'.pending_exit_code = None
               /\ hist'.events = hist.events
               /\ hist'.fed = hist.fed \o EndX
               /\ det'.partial_marker = <<>>
        /\ (Reads(PwdP) /\ det.in_command /\ hist.end_seen /\ ~hist.end_ok) =>
               /\ hist'.events = hist.events
               /\ det'.in_command ]_vars

\* START, END:0, END:x, PWD: the command is still open and only its
\* CommandStart was sent
C39_Witness ==
    /\ hist.fed = StartC \o End0 \o EndX \o PwdP
    /\ wire = <<>>
    /\ det.in_command
    /\ det.pending_exit_code = None
    /\ hist.events = <<CommandStart(<<99>>, ProcessCwd)>>

\* ------------------------------------------------------------------ retry()
\* the largest max_retries of the calls explored
MaxRetries == 3

\* the base delays of the calls explored, in milliseconds
BaseDelays == { U64(0), U64(100), <<32768, 0, 0, 0>>, U64Max }

\* everything a call of retry() leaves alone
retryrest == <<det, log_sender, queue, received, wire, items, reading,
               reader_done, torn, hist, last, mgr, os, command_log, pty, locks>>

\* retry(op, max_retries, base_delay_ms) has been called
RetryCalled(max_retries, base_delay_ms) ==
    [pc |-> "call", max_retries |-> max_retries,
     base_delay_ms |-> base_delay_ms, attempt |-> 0, outcomes |-> <<>>,
     sleeps |-> 0, delay |-> U64(0), result |-> [kind |-> "none", of |-> 0]]

InitRetry ==
    /\ det = NewDetector
    /\ log_sender = TRUE
    /\ queue = <<>>
    /\ received = <<>>
    /\ wire = <<>>
    /\ items = 0
    /\ reading = FALSE
    /\ reader_done = FALSE
    /\ torn = FALSE
    /\ hist = NoHistory
    /\ last = NoCall
    /\ mgr = [p \in Procs |-> IF p = "self" THEN StartedManager(0) ELSE NewManager]
    /\ os = StartedSystem
    /\ command_log = NewCommandLog
    /\ pty = RunningPty
    /\ locks = NoLocks
    /\ \E m \in 0..MaxRetries, b \in BaseDelays : retrying = RetryCalled(m, b)

\* lines 18-29: op().await returns; Ok is returned at once, the last error
\* when no retry is left, else the delay is computed.  The jitter is any
\* value of 0..=expo/2, of which the two ends are taken; expo + jitter
\* overflows a u64 when expo has saturated, which panics in a build with
\* overflow checks and wraps in one without.
RetryAttempt(outcome) ==
    /\ retrying.pc = "call"
    /\ LET r == [retrying EXCEPT !.outcomes = Append(@, outcome)]
           n == Len(r.outcomes)
           expo == saturating_shl(r.base_delay_ms, Min(r.attempt, 10))
       IN  IF outcome = "ok"
           THEN retrying' = [r EXCEPT !.pc = "done",
                                      !.result = [kind |-> "Ok", of |-> n]]
           ELSE IF give_up(r.attempt, r.max_retries)
           THEN retrying' = [r EXCEPT !.pc = "done",
                                      !.result = [kind |-> "Err", of |-> n]]
           ELSE \E jitter \in {U64(0), Half(expo)} :
                    LET d == checked_add(expo, jitter)
                    IN  \/ retrying' = [r EXCEPT !.pc = "sleep", !.delay = d.sum]
                        \/ /\ d.overflow
                           /\ retrying' =
                                  [r EXCEPT !.pc = "done",
                                            !.result = [kind |-> "panic", of |-> n]]
    /\ UNCHANGED retryrest

\* lines 27-28: sleep(delay).await returns and the attempt is counted
RetrySleep ==
    /\ retrying.pc = "sleep"
    /\ retrying' = [retrying EXCEPT !.pc = "call", !.sleeps = @ + 1,
                                    !.attempt = @ + 1]
    /\ UNCHANGED retryrest

NextRetry ==
    \/ \E outcome \in {"ok", "err"} : RetryAttempt(outcome)
    \/ RetrySleep

SpecRetry == InitRetry /\ [][NextRetry]_vars

\* how often op was called, and how many of the calls failed
Calls == Len(retrying.outcomes)
Failed == Cardinality({k \in 1..Calls : retrying.outcomes[k] = "err"})

\* C40: retry calls op at most max_retries + 1 times and then ends; every
\* call but the last has failed and was followed by exactly one sleep; it
\* ends by returning the Ok of the call that succeeded, with no further
\* call or sleep, or by returning the error of its last call, and that
\* exactly when all max_retries + 1 calls have failed.
C40_RetryTerminates ==
    /\ Calls <= retrying.max_retries + 1
    /\ \A k \in 1..(Calls - 1) : retrying.outcomes[k] = "err"
    /\ retrying.sleeps = IF retrying.pc = "call" THEN Calls ELSE Calls - 1
    /\ retrying.pc = "done" =>
           /\ retrying.result.kind \in {"Ok", "Err"}
           /\ retrying.result.of = Calls
           /\ retrying.result.kind = "Ok" <=> retrying.outcomes[Calls] = "ok"
           /\ retrying.result.kind = "Err" <=> Failed = retrying.max_retries + 1

\* the same for the calls whose delay does not overflow
RetryContractUnlessPanic ==
    retrying.result.kind # "panic" => C40_RetryTerminates

====
